---------------------------- MODULE Spec2Model ----------------------------
(***************************************************************************)
(* A model of the media acquisition engine of sdl (src/src/download.rs):   *)
(*   - DownloadManager::progress_downloads (the concurrent scheduler),     *)
(*   - get_response (manual redirect following) and the HTTP transport     *)
(*     of the two clients the engine fetches with,                         *)
(*   - process_chunk (the per-segment AES-128-CBC / passthrough            *)
(*     decryptor of m3u8_download),                                        *)
(*   - the segment loop of m3u8_download (key tags, IV, sticky             *)
(*     encryption; the segments written one after the other),              *)
(*   - the playlist resolution of m3u8_download (variant selection),       *)
(*   - the progress registry of the Downloader and the transfers that      *)
(*     register, update, finish and abandon their entries,                 *)
(*   - custom_progress_style (the percent and bar keys),                   *)
(*   - the RefCells of the registry, statement by statement,               *)
(*   - the end of an HLS transfer (flush, FFmpeg, the raw file),           *)
(*   - download_to_file (the kind of transfer and the output file),        *)
(*   - the retry strategy (default_on_request_success),                    *)
(*   - get_episode_name (the episode number of a file name),               *)
(*   - batch mode in src/src/main.rs (scrape_season and the exit code),    *)
(*   - Downloader::clear and Drop (the end of the aggregate bar),          *)
(*   - concurrent download_to_file calls opening their target files.       *)
(* Each part has its own specification; the variables of the other parts   *)
(* stay at their idle values.                                              *)
(***************************************************************************)
EXTENDS Integers, Sequences, FiniteSets, TLC

VARIABLES
    \* ---- DownloadManager::progress_downloads
    max_concurrent,   \* Option<usize>: {} is None, {n} is Some(n)
    senderOpen,       \* the UnboundedSender has not been dropped
    sent,             \* number of tasks sent on the channel so far
    rx_stream,        \* tasks sent and not yet received (FIFO)
    streamDone,       \* for_each_concurrent has seen the end of the stream
    inflight,         \* task -> step of its running download_to_file future
    startCount,       \* task -> number of download_to_file calls made for it
    returned,         \* task -> "none" | "ok" | "err" (result of the call)
    warned,           \* tasks whose failure has been logged (log::warn!)
    dmPc,             \* "running" | "returned" (progress_downloads)
    tickPc,           \* position of Downloader::tick: "render" | "sleep"
    \* ---- get_response
    client,           \* "default" | "custom": which client is passed in
    referer,          \* Option<&str> of the caller
    last_url,         \* URL of the next request (hop number; 0 is the caller's)
    redirect_count,   \* get_response's own counter
    grPc,             \* "build" | "execute" | "handle" | "done"
    grResult,         \* "none" | "ok" | an error message
    response,         \* the response handed to get_response
    transport,        \* state of the transport's current execute call
    wire,             \* requests that reached a server: [url, referer, by]
    serverRedirects,  \* redirect responses the servers have sent in a row
    redirectsSeen,    \* redirect responses that were handed to get_response
    \* ---- process_chunk (one segment)
    seg,              \* the segment: key, iv, plaintext (if any), ciphertext
    pos,              \* ciphertext bytes read from the stream so far
    decryptor,        \* Decryptor: None or Aes128 {decryptor, last_chunk, rest_to_decrypt}
    written,          \* bytes written to output_stream for this segment
    segPc,            \* "read" | "flushed" | "error"
    segError,         \* "none" | the error message
    \* ---- m3u8_download segment loop
    playlist,         \* [media_sequence, segments]
    segPos,           \* position (1-based) of the segment the loop is at
    segement_index,   \* the successors() counter zipped with the segments
    current_encryption, \* Option<Encryption>
    keyFetches,       \* key URIs requested, in order
    segLog,           \* per processed segment: how its decryptor was built
    hlsPc,            \* "key" | "segment" | "done" | "error"
    hlsError,         \* "none" | the error message
    hlsEntry,         \* the kind of the progress entry of the transfer
    segRequests,      \* positions of the segments requested, in order
    \* ---- m3u8_download: from the m3u8 document to the media playlist
    doc,              \* the m3u8 document of the response: master, media or unparsable
    served,           \* the media playlist the variants' URIs serve
    highest_quality_variant, \* Option: the variant selected from the master playlist
    media_playlist,   \* Option: the media playlist whose segments are downloaded
    segmentsFetched,  \* segments requested so far
    selPc,            \* "parse" | "fetch" | "download" | "done" | "error"
    selError,         \* "none" | the error message
    \* ---- m3u8_download: the segment loop and the target file
    media_segments,   \* media_playlist.segments, each with the encryption in force and its body
    segIdx,           \* position (1-based) of the segment the loop is at
    requested,        \* positions of the segments requested, in request order
    chunkPos,         \* bytes of the current segment's body read so far
    segDecryptor,     \* the Decryptor of the current segment
    output_stream,    \* bytes written to the target file so far
    downloaded_bytes, \* the loop's byte counter
    catPc,            \* "fetch" | "read" | "finish" | "done" | "error"
    catError,         \* "none" | the error message
    \* ---- Downloader: the progress registry and the transfers that use it
    transfers,        \* transfer -> its input (kind, Content-Length, body sizes) and its local state
    sub_progresses,   \* Vec<ProgressBarOrResult>
    bars,             \* the indicatif bar of each entry: pos, len, status
    total_progress,   \* Option: the aggregate bar: pos, len, message, status
    \* ---- custom_progress_style: the percent and bar keys
    state,            \* the ProgressState the keys are drawn from: pos, len, finished
    w,                \* Option: what the keys last wrote, and the state they wrote it for
    \* ---- Downloader: the RefCells of the registry and the tasks of the executor
    borrowFlag,       \* the borrow state of each RefCell: 0 free, n > 0 shared borrows, -1 one mutable borrow
    running,          \* Option: the task the executor is polling (None: every task is at an await)
    rcTasks,          \* task -> its position, the statements left until its next await, its locals
    panicked,         \* a borrow() or borrow_mut() has panicked
    \* ---- m3u8_download: from the last segment to the return (clean_up_write, FFmpeg)
    ffmpeg_path,      \* Option<PathBuf> of the Downloader
    debug,            \* the debug flag of the Downloader
    rmxSegments,      \* [count, written]: segments of the playlist, segments written to the file
    flushed,          \* clean_up_write has returned Ok
    ffmpeg_cmd,       \* Option: the command that was spawned, and what had been written when it was
    ffmpeg_result,    \* Option: how the FFmpeg process ended
    disk,             \* the files on disk: "ts" is target_path, "mp4" is target_path.with_extension("mp4")
    rmxLog,           \* messages logged
    rmxEntry,         \* the kind of the progress entry of the transfer
    rmxPc,            \* "segments" | "flush" | "remux" | "wait" | "remove" | "returned"
    rmxResult,        \* "none" | "ok" | "err": what m3u8_download returned
    \* ---- Downloader::download_to_file: the kind of the transfer and the target file
    task,             \* the InternalDownloadTask: url (last path segment), output_path, output_path_has_extension, overwrite_file, custom_message
    response_url,     \* last path segment of response.url(), the URL after the redirects
    is_m3u8,          \* Option<bool>: is_m3u8_url(response.url()), once computed
    output_path,      \* Option: the path the target file is opened at
    message,          \* Option: the message of the progress bar
    files,            \* the files of the target directory: name -> content
    files0,           \* the files of the target directory when download_to_file was called
    dtfEntries,       \* number of progress entries registered
    dtfPc,            \* "get_response" | "open" | "simple_download" | "m3u8_download" | "body" | "returned"
    dtfResult,        \* "none" | "ok" | the error
    \* ---- retry::strategy::CustomRetryStrategy and the retry loop around it
    resStatus,        \* the status of the response the strategy is handed
    retryable,        \* "unset" | "None" | "Transient" | "Fatal": Option<Retryable> of the response
    n_past_retries,   \* retries made so far
    handed,           \* Option: the status of the response handed to the caller
    retryPc,          \* "execute" | "handled" | "done"
    \* ---- get_episode_name: the episode number of a file name
    episode_info,     \* the EpisodeInfo: episode_number and max_episode_number_in_season
    formatted,        \* Option: what format_episode_number returned
    \* ---- batch mode: one season scraped and transferred, and the exit code
    episodes_request, \* episodes asked for (EpisodesRequest::Episodes)
    max_episodes,     \* episodes of the season (None until the season's page is read)
    episode,          \* episode the loop of scrape_season is at
    got_error,        \* got_error of scrape_season
    scrapeWarned,     \* episodes whose video url could not be got (log::warn!)
    batchChannel,     \* download tasks sent and not yet transferred
    transferWarned,   \* episodes whose transfer failed (log::warn!)
    downloader_result, \* result of series_downloader.download (None while it runs)
    fatal,            \* the condition outside the episodes that ended the run, if any
    exit_status,      \* exit status of the process (None while it runs)
    \* ---- Downloader::clear and Drop: the end of the aggregate bar
    dropped,          \* the Downloader has been cleared or dropped
    totalMark,        \* how clean_up_total_progress_bar closed the aggregate bar (none, finished, abandoned)
    totalPercent,     \* the percent key of the aggregate bar at its last draw (None: never closed)
    \* ---- progress_downloads: concurrent download_to_file calls over one save directory
    coTasks,          \* per transfer: output name, kind, position in download_to_file, result
    coFiles,          \* the files of the save directory: path, the transfer that created it (0: none of them), length
    ffmpeg_installed  \* Downloader::ffmpeg_path is Some

dmVars  == <<max_concurrent, senderOpen, sent, rx_stream, streamDone, inflight,
             startCount, returned, warned, dmPc, tickPc>>
grVars  == <<client, referer, last_url, redirect_count, grPc, grResult, response,
             transport, wire, serverRedirects, redirectsSeen>>
pcVars  == <<seg, pos, decryptor, written, segPc, segError>>
hlsVars == <<playlist, segPos, segement_index, current_encryption, keyFetches,
             segLog, hlsPc, hlsError, hlsEntry, segRequests>>
selVars == <<doc, served, highest_quality_variant, media_playlist, segmentsFetched,
             selPc, selError>>
catVars == <<media_segments, segIdx, requested, chunkPos, segDecryptor,
             output_stream, downloaded_bytes, catPc, catError>>
pbVars == <<transfers, sub_progresses, bars, total_progress>>
styleVars == <<state, w>>
rcVars == <<borrowFlag, running, rcTasks, panicked>>
rmxVars == <<ffmpeg_path, debug, rmxSegments, flushed, ffmpeg_cmd,
             ffmpeg_result, disk, rmxLog, rmxEntry, rmxPc,
             rmxResult>>
dtfVars == <<task, response_url, is_m3u8, output_path, message,
             files, files0, dtfEntries, dtfPc, dtfResult>>
retryVars == <<resStatus, retryable, n_past_retries, handed, retryPc>>
fmtVars == <<episode_info, formatted>>
batchVars == <<episodes_request, max_episodes, episode, got_error, scrapeWarned,
             batchChannel, transferWarned, downloader_result, fatal, exit_status>>
clrVars == <<dropped, totalMark, totalPercent>>
coVars == <<coTasks, coFiles, ffmpeg_installed>>
vars    == <<dmVars, grVars, pcVars, hlsVars, selVars, catVars, pbVars, styleVars, rcVars, rmxVars, dtfVars, retryVars, fmtVars, batchVars, clrVars, coVars>>

(***************************************************************************)
(* Option<T> as a set with at most one element.                            *)
(***************************************************************************)
None      == {}
Some(x)   == {x}
IsSome(o) == o # {}
Unwrap(o) == CHOOSE x \in o : TRUE

(***************************************************************************)
(* Idle values: what the variables of a part hold under the specifications *)
(* of the other parts.                                                     *)
(***************************************************************************)
DmIdle ==
    [max_concurrent |-> None, senderOpen |-> FALSE, sent |-> 0,
     rx_stream |-> <<>>, streamDone |-> FALSE, inflight |-> <<>>,
     startCount |-> <<>>, returned |-> <<>>, warned |-> {},
     dmPc |-> "idle", tickPc |-> "idle"]

GrIdle ==
    [client |-> "default", referer |-> None, last_url |-> 0,
     redirect_count |-> 0, grPc |-> "idle", grResult |-> "none",
     response |-> [status |-> 0, location |-> "none"],
     transport |-> [hops |-> 0, url |-> 0],
     wire |-> {}, serverRedirects |-> 0, redirectsSeen |-> 0]

PcIdle ==
    [seg |-> [method |-> "idle"], pos |-> 0,
     decryptor |-> [kind |-> "None", iv |-> <<>>, last_chunk |-> {},
                    rest_to_decrypt |-> <<>>],
     written |-> <<>>, segPc |-> "idle", segError |-> "none"]

HlsIdle ==
    [playlist |-> [media_sequence |-> 0, segments |-> <<>>],
     segPos |-> 0, segement_index |-> 0, current_encryption |-> None,
     keyFetches |-> <<>>, segLog |-> <<>>, hlsPc |-> "idle", hlsError |-> "none",
     hlsEntry |-> "idle", segRequests |-> <<>>]

SelIdle ==
    [doc |-> [kind |-> "idle"], served |-> [kind |-> "idle"],
     highest_quality_variant |-> None, media_playlist |-> None,
     segmentsFetched |-> 0, selPc |-> "idle", selError |-> "none"]

CatIdle ==
    [media_segments |-> <<>>, segIdx |-> 0, requested |-> <<>>, chunkPos |-> 0,
     segDecryptor |-> [kind |-> "None", iv |-> <<>>, last_chunk |-> {},
                       rest_to_decrypt |-> <<>>],
     output_stream |-> <<>>, downloaded_bytes |-> 0, catPc |-> "idle",
     catError |-> "none"]

PbIdle ==
    [transfers |-> <<>>, sub_progresses |-> <<>>, bars |-> <<>>,
     total_progress |-> None]

StyleIdle ==
    [state |-> [pos |-> 0, len |-> None, finished |-> FALSE], w |-> None]

RcIdle ==
    [borrowFlag |-> [sub_progresses |-> 0, total_progress |-> 0],
     running |-> None, rcTasks |-> <<>>, panicked |-> FALSE]

RmxIdle ==
    [ffmpeg_path |-> None, debug |-> FALSE, rmxSegments |-> [count |-> 0, written |-> 0],
     flushed |-> FALSE, ffmpeg_cmd |-> None, ffmpeg_result |-> None, disk |-> {},
     rmxLog |-> {}, rmxEntry |-> "idle", rmxPc |-> "idle", rmxResult |-> "none"]

DtfIdle ==
    [task |-> [url |-> <<>>], response_url |-> <<>>, is_m3u8 |-> None,
     output_path |-> None, message |-> None, files |-> <<>>, files0 |-> <<>>,
     dtfEntries |-> 0, dtfPc |-> "idle", dtfResult |-> "none"]

RetryIdle ==
    [resStatus |-> 0, retryable |-> "unset", n_past_retries |-> 0, handed |-> None,
     retryPc |-> "idle"]

FmtIdle ==
    [episode_info |-> [episode_number |-> [kind |-> "idle"],
                       max_episode_number_in_season |-> None],
     formatted |-> None]

BatchIdle ==
    [episodes_request |-> {}, max_episodes |-> None, episode |-> 0, got_error |-> FALSE,
     scrapeWarned |-> {}, batchChannel |-> <<>>, transferWarned |-> {},
     downloader_result |-> None, fatal |-> None, exit_status |-> None]

ClrIdle ==
    [dropped |-> FALSE, totalMark |-> "none", totalPercent |-> None]

CoIdle ==
    [coTasks |-> <<>>, coFiles |-> {}, ffmpeg_installed |-> FALSE]

(***************************************************************************)
(*                 DownloadManager::progress_downloads                     *)
(***************************************************************************)
MaxTasks      == 3   \* tasks the producer sends at most
MaxConcurrent == 2   \* largest concurrency limit tried
TransferSteps == 2   \* suspension points of one download_to_file call

Tasks == 1..MaxTasks

\* for_each_concurrent polls the stream only while the number of futures it
\* holds is below the limit (no limit: always).
UnderLimitOff(limit, n) == IF limit = None THEN TRUE ELSE Unwrap(limit) >= n
UnderLimit(limit, n) == IF limit = None THEN TRUE ELSE Unwrap(limit) > n

InFlight == DOMAIN inflight

InitDM ==
    /\ max_concurrent \in {None} \cup {Some(n) : n \in 1..MaxConcurrent}
    /\ senderOpen = TRUE
    /\ sent = 0
    /\ rx_stream = <<>>
    /\ streamDone = FALSE
    /\ inflight = <<>>
    /\ startCount = [t \in Tasks |-> 0]
    /\ returned = [t \in Tasks |-> "none"]
    /\ warned = {}
    /\ dmPc = "running"
    /\ tickPc = "render"
    /\ client = GrIdle.client
    /\ referer = GrIdle.referer
    /\ last_url = GrIdle.last_url
    /\ redirect_count = GrIdle.redirect_count
    /\ grPc = GrIdle.grPc
    /\ grResult = GrIdle.grResult
    /\ response = GrIdle.response
    /\ transport = GrIdle.transport
    /\ wire = GrIdle.wire
    /\ serverRedirects = GrIdle.serverRedirects
    /\ redirectsSeen = GrIdle.redirectsSeen
    /\ seg = PcIdle.seg
    /\ pos = PcIdle.pos
    /\ decryptor = PcIdle.decryptor
    /\ written = PcIdle.written
    /\ segPc = PcIdle.segPc
    /\ segError = PcIdle.segError
    /\ playlist = HlsIdle.playlist
    /\ segPos = HlsIdle.segPos
    /\ segement_index = HlsIdle.segement_index
    /\ current_encryption = HlsIdle.current_encryption
    /\ keyFetches = HlsIdle.keyFetches
    /\ segLog = HlsIdle.segLog
    /\ hlsPc = HlsIdle.hlsPc
    /\ hlsError = HlsIdle.hlsError
    /\ hlsEntry = HlsIdle.hlsEntry
    /\ segRequests = HlsIdle.segRequests
    /\ doc = SelIdle.doc
    /\ served = SelIdle.served
    /\ highest_quality_variant = SelIdle.highest_quality_variant
    /\ media_playlist = SelIdle.media_playlist
    /\ segmentsFetched = SelIdle.segmentsFetched
    /\ selPc = SelIdle.selPc
    /\ selError = SelIdle.selError
    /\ media_segments = CatIdle.media_segments
    /\ segIdx = CatIdle.segIdx
    /\ requested = CatIdle.requested
    /\ chunkPos = CatIdle.chunkPos
    /\ segDecryptor = CatIdle.segDecryptor
    /\ output_stream = CatIdle.output_stream
    /\ downloaded_bytes = CatIdle.downloaded_bytes
    /\ catPc = CatIdle.catPc
    /\ catError = CatIdle.catError
    /\ transfers = PbIdle.transfers
    /\ sub_progresses = PbIdle.sub_progresses
    /\ bars = PbIdle.bars
    /\ total_progress = PbIdle.total_progress
    /\ state = StyleIdle.state
    /\ w = StyleIdle.w
    /\ borrowFlag = RcIdle.borrowFlag
    /\ running = RcIdle.running
    /\ rcTasks = RcIdle.rcTasks
    /\ panicked = RcIdle.panicked
    /\ ffmpeg_path = RmxIdle.ffmpeg_path
    /\ debug = RmxIdle.debug
    /\ rmxSegments = RmxIdle.rmxSegments
    /\ flushed = RmxIdle.flushed
    /\ ffmpeg_cmd = RmxIdle.ffmpeg_cmd
    /\ ffmpeg_result = RmxIdle.ffmpeg_result
    /\ disk = RmxIdle.disk
    /\ rmxLog = RmxIdle.rmxLog
    /\ rmxEntry = RmxIdle.rmxEntry
    /\ rmxPc = RmxIdle.rmxPc
    /\ rmxResult = RmxIdle.rmxResult
    /\ task = DtfIdle.task
    /\ response_url = DtfIdle.response_url
    /\ is_m3u8 = DtfIdle.is_m3u8
    /\ output_path = DtfIdle.output_path
    /\ message = DtfIdle.message
    /\ files = DtfIdle.files
    /\ files0 = DtfIdle.files0
    /\ dtfEntries = DtfIdle.dtfEntries
    /\ dtfPc = DtfIdle.dtfPc
    /\ dtfResult = DtfIdle.dtfResult
    /\ resStatus = RetryIdle.resStatus
    /\ retryable = RetryIdle.retryable
    /\ n_past_retries = RetryIdle.n_past_retries
    /\ handed = RetryIdle.handed
    /\ retryPc = RetryIdle.retryPc
    /\ episode_info = FmtIdle.episode_info
    /\ formatted = FmtIdle.formatted
    /\ episodes_request = BatchIdle.episodes_request
    /\ max_episodes = BatchIdle.max_episodes
    /\ episode = BatchIdle.episode
    /\ got_error = BatchIdle.got_error
    /\ scrapeWarned = BatchIdle.scrapeWarned
    /\ batchChannel = BatchIdle.batchChannel
    /\ transferWarned = BatchIdle.transferWarned
    /\ downloader_result = BatchIdle.downloader_result
    /\ fatal = BatchIdle.fatal
    /\ exit_status = BatchIdle.exit_status
    /\ dropped = ClrIdle.dropped
    /\ totalMark = ClrIdle.totalMark
    /\ totalPercent = ClrIdle.totalPercent
    /\ coTasks = CoIdle.coTasks
    /\ coFiles = CoIdle.coFiles
    /\ ffmpeg_installed = CoIdle.ffmpeg_installed

\* The other parts stay idle.
DmFrame == UNCHANGED <<grVars, pcVars, hlsVars, selVars, catVars, pbVars, styleVars, rcVars, rmxVars, dtfVars, retryVars, fmtVars, batchVars, clrVars, coVars>>

\* The series downloader sends the next task on the channel.
SendTask ==
    /\ senderOpen /\ sent < MaxTasks
    /\ sent' = sent + 1
    /\ rx_stream' = Append(rx_stream, sent + 1)
    /\ DmFrame
    /\ UNCHANGED <<max_concurrent, senderOpen, streamDone, inflight, startCount,
                   returned, warned, dmPc, tickPc>>

\* The series downloader finishes and drops the sender.
DropSender ==
    /\ senderOpen
    /\ senderOpen' = FALSE
    /\ DmFrame
    /\ UNCHANGED <<max_concurrent, sent, rx_stream, streamDone, inflight,
                   startCount, returned, warned, dmPc, tickPc>>

\* What the closure receives from the stream: the next task, which leaves it.
TakeTask(q) == [task |-> Head(q), rest |-> Tail(q)]

\* for_each_concurrent receives a task and starts its future: the closure
\* builds the InternalDownloadTask and calls download_to_file.
StartTransfer ==
    /\ dmPc = "running" /\ ~streamDone
    /\ UnderLimit(max_concurrent, Cardinality(InFlight))
    /\ rx_stream # <<>>
    /\ LET got == TakeTask(rx_stream) IN
         /\ rx_stream' = got.rest
         /\ inflight' = [t \in InFlight \cup {got.task} |->
                            IF t \in InFlight THEN inflight[t] ELSE 0]
         /\ startCount' = [startCount EXCEPT ![got.task] = @ + 1]
    /\ DmFrame
    /\ UNCHANGED <<max_concurrent, senderOpen, sent, streamDone, returned,
                   warned, dmPc, tickPc>>

\* The stream yields None: the sender is dropped and nothing is buffered.
StreamEnd ==
    /\ dmPc = "running" /\ ~streamDone
    /\ UnderLimit(max_concurrent, Cardinality(InFlight))
    /\ rx_stream = <<>> /\ ~senderOpen
    /\ streamDone' = TRUE
    /\ DmFrame
    /\ UNCHANGED <<max_concurrent, senderOpen, sent, rx_stream, inflight,
                   startCount, returned, warned, dmPc, tickPc>>

\* One download_to_file future advances over a suspension point.
TransferStep(t) ==
    /\ dmPc = "running" /\ t \in InFlight
    /\ inflight[t] < TransferSteps
    /\ inflight' = [inflight EXCEPT ![t] = @ + 1]
    /\ DmFrame
    /\ UNCHANGED <<max_concurrent, senderOpen, sent, rx_stream, streamDone,
                   startCount, returned, warned, dmPc, tickPc>>

\* The futures for_each_concurrent still holds after the future of t ended
\* with result r: only that future leaves, whatever it returned.
AfterReturnAbort(fs, t, r) ==
    IF r = "err" THEN <<>> ELSE [u \in (DOMAIN fs) \ {t} |-> fs[u]]
AfterReturn(fs, t, r) == [u \in (DOMAIN fs) \ {t} |-> fs[u]]

\* download_to_file returns Ok(()).
TransferOk(t) ==
    /\ dmPc = "running" /\ t \in InFlight
    /\ inflight[t] = TransferSteps
    /\ inflight' = AfterReturn(inflight, t, "ok")
    /\ returned' = [returned EXCEPT ![t] = "ok"]
    /\ DmFrame
    /\ UNCHANGED <<max_concurrent, senderOpen, sent, rx_stream, streamDone,
                   startCount, warned, dmPc, tickPc>>

\* download_to_file returns Err: the closure logs a warning, nothing else.
TransferErr(t) ==
    /\ dmPc = "running" /\ t \in InFlight
    /\ inflight' = AfterReturn(inflight, t, "err")
    /\ returned' = [returned EXCEPT ![t] = "err"]
    /\ warned' = warned \cup {t}
    /\ DmFrame
    /\ UNCHANGED <<max_concurrent, senderOpen, sent, rx_stream, streamDone,
                   startCount, dmPc, tickPc>>

\* download_future is ready: the stream has ended and no future is left.
DownloadFutureReadyEarly == streamDone
DownloadFutureReady == streamDone /\ InFlight = {}

\* select!: the download branch completes and progress_downloads returns.
Finish ==
    /\ dmPc = "running"
    /\ DownloadFutureReady
    /\ dmPc' = "returned"
    /\ DmFrame
    /\ UNCHANGED <<max_concurrent, senderOpen, sent, rx_stream, streamDone,
                   inflight, startCount, returned, warned, tickPc>>

\* Downloader::tick: render the bars, sleep, again; the loop has no exit.
TickNext(pc) == IF pc = "render" THEN "sleep" ELSE "render"

\* A tick future that completed would complete the select's second branch.
SelectOutcome(pc) == IF pc = "finished" THEN "unreachable" ELSE "running"

Tick ==
    /\ dmPc = "running"
    /\ tickPc' = TickNext(tickPc)
    /\ dmPc' = SelectOutcome(tickPc')
    /\ DmFrame
    /\ UNCHANGED <<max_concurrent, senderOpen, sent, rx_stream, streamDone,
                   inflight, startCount, returned, warned>>

NextDM ==
    \/ SendTask
    \/ DropSender
    \/ StartTransfer
    \/ StreamEnd
    \/ \E t \in Tasks : TransferStep(t)
    \/ \E t \in Tasks : TransferOk(t)
    \/ \E t \in Tasks : TransferErr(t)
    \/ Finish
    \/ Tick

SpecDM == InitDM /\ [][NextDM]_vars

\* The claim's assumptions as fairness: the sender is eventually dropped,
\* every started transfer eventually returns; the executor polls ready futures.
DmFairness ==
    /\ WF_vars(DropSender)
    /\ WF_vars(StartTransfer)
    /\ WF_vars(StreamEnd)
    /\ WF_vars(\E t \in Tasks : TransferOk(t) \/ TransferErr(t))
    /\ WF_vars(Finish)

SpecDMFair == SpecDM /\ DmFairness

(***************************************************************************)
(*                 get_response and the HTTP transport                     *)
(***************************************************************************)
RedirectLimit          == 10  \* get_response: redirect_count >= 10
TransportRedirectLimit == 10  \* the transport's own limit when it follows

\* The statuses a server answers with, and what its Location header holds:
\* nothing, a URL, or bytes that are no string.
Statuses  == {200, 300, 301, 302, 303, 304, 307, 308}
Locations == {"none", "url", "nonstr"}

\* get_response: [301, 308, 302, 303, 307].contains(status)
IsRedirectCode(status) == status \in {301, 308, 302, 303, 307}

\* The redirect policy of the transport of each client: the shared default
\* client is built with .redirect(Policy::none()); the client Downloader::new
\* builds (when a retry count is given) sets no policy, so the transport
\* keeps its own, which follows redirects.
RedirectPolicy(c) == IF c = "default" THEN "none" ELSE "follow"

\* A header value naming the caller's referer, or the URL of a hop.
CallerReferer == [src |-> "caller", url |-> 0]
UrlReferer(u) == [src |-> "url", url |-> u]

\* get_response: the Referer header of the request for last_url.
RequestRefererPrev(ref, url) == IF url > 0 THEN Some(UrlReferer(url - 1)) ELSE ref
RequestReferer(ref, url) == ref

\* The Referer the transport puts on a request it issues itself to follow a
\* redirect from previous: the previous URL ("reqwest changes the Referer
\* header on redirection").
FollowReferer(previous) == Some(UrlReferer(previous))

\* get_response after a redirect response: the 'more than 10 redirects' test.
TooManyRedirectsOff(count) == count > RedirectLimit
TooManyRedirects(count) == count >= RedirectLimit

GrFrame == UNCHANGED <<dmVars, pcVars, hlsVars, selVars, catVars, pbVars, styleVars, rcVars, rmxVars, dtfVars, retryVars, fmtVars, batchVars, clrVars, coVars>>

InitGR ==
    /\ client \in {"default", "custom"}
    /\ referer \in {None, Some(CallerReferer)}
    /\ last_url = 0
    /\ redirect_count = 0
    /\ grPc = "build"
    /\ grResult = "none"
    /\ response = [status |-> 0, location |-> "none"]
    /\ transport = [hops |-> 0, url |-> 0]
    /\ wire = {}
    /\ serverRedirects = 0
    /\ redirectsSeen = 0
    /\ max_concurrent = DmIdle.max_concurrent
    /\ senderOpen = DmIdle.senderOpen
    /\ sent = DmIdle.sent
    /\ rx_stream = DmIdle.rx_stream
    /\ streamDone = DmIdle.streamDone
    /\ inflight = DmIdle.inflight
    /\ startCount = DmIdle.startCount
    /\ returned = DmIdle.returned
    /\ warned = DmIdle.warned
    /\ dmPc = DmIdle.dmPc
    /\ tickPc = DmIdle.tickPc
    /\ seg = PcIdle.seg
    /\ pos = PcIdle.pos
    /\ decryptor = PcIdle.decryptor
    /\ written = PcIdle.written
    /\ segPc = PcIdle.segPc
    /\ segError = PcIdle.segError
    /\ playlist = HlsIdle.playlist
    /\ segPos = HlsIdle.segPos
    /\ segement_index = HlsIdle.segement_index
    /\ current_encryption = HlsIdle.current_encryption
    /\ keyFetches = HlsIdle.keyFetches
    /\ segLog = HlsIdle.segLog
    /\ hlsPc = HlsIdle.hlsPc
    /\ hlsError = HlsIdle.hlsError
    /\ hlsEntry = HlsIdle.hlsEntry
    /\ segRequests = HlsIdle.segRequests
    /\ doc = SelIdle.doc
    /\ served = SelIdle.served
    /\ highest_quality_variant = SelIdle.highest_quality_variant
    /\ media_playlist = SelIdle.media_playlist
    /\ segmentsFetched = SelIdle.segmentsFetched
    /\ selPc = SelIdle.selPc
    /\ selError = SelIdle.selError
    /\ media_segments = CatIdle.media_segments
    /\ segIdx = CatIdle.segIdx
    /\ requested = CatIdle.requested
    /\ chunkPos = CatIdle.chunkPos
    /\ segDecryptor = CatIdle.segDecryptor
    /\ output_stream = CatIdle.output_stream
    /\ downloaded_bytes = CatIdle.downloaded_bytes
    /\ catPc = CatIdle.catPc
    /\ catError = CatIdle.catError
    /\ transfers = PbIdle.transfers
    /\ sub_progresses = PbIdle.sub_progresses
    /\ bars = PbIdle.bars
    /\ total_progress = PbIdle.total_progress
    /\ state = StyleIdle.state
    /\ w = StyleIdle.w
    /\ borrowFlag = RcIdle.borrowFlag
    /\ running = RcIdle.running
    /\ rcTasks = RcIdle.rcTasks
    /\ panicked = RcIdle.panicked
    /\ ffmpeg_path = RmxIdle.ffmpeg_path
    /\ debug = RmxIdle.debug
    /\ rmxSegments = RmxIdle.rmxSegments
    /\ flushed = RmxIdle.flushed
    /\ ffmpeg_cmd = RmxIdle.ffmpeg_cmd
    /\ ffmpeg_result = RmxIdle.ffmpeg_result
    /\ disk = RmxIdle.disk
    /\ rmxLog = RmxIdle.rmxLog
    /\ rmxEntry = RmxIdle.rmxEntry
    /\ rmxPc = RmxIdle.rmxPc
    /\ rmxResult = RmxIdle.rmxResult
    /\ task = DtfIdle.task
    /\ response_url = DtfIdle.response_url
    /\ is_m3u8 = DtfIdle.is_m3u8
    /\ output_path = DtfIdle.output_path
    /\ message = DtfIdle.message
    /\ files = DtfIdle.files
    /\ files0 = DtfIdle.files0
    /\ dtfEntries = DtfIdle.dtfEntries
    /\ dtfPc = DtfIdle.dtfPc
    /\ dtfResult = DtfIdle.dtfResult
    /\ resStatus = RetryIdle.resStatus
    /\ retryable = RetryIdle.retryable
    /\ n_past_retries = RetryIdle.n_past_retries
    /\ handed = RetryIdle.handed
    /\ retryPc = RetryIdle.retryPc
    /\ episode_info = FmtIdle.episode_info
    /\ formatted = FmtIdle.formatted
    /\ episodes_request = BatchIdle.episodes_request
    /\ max_episodes = BatchIdle.max_episodes
    /\ episode = BatchIdle.episode
    /\ got_error = BatchIdle.got_error
    /\ scrapeWarned = BatchIdle.scrapeWarned
    /\ batchChannel = BatchIdle.batchChannel
    /\ transferWarned = BatchIdle.transferWarned
    /\ downloader_result = BatchIdle.downloader_result
    /\ fatal = BatchIdle.fatal
    /\ exit_status = BatchIdle.exit_status
    /\ dropped = ClrIdle.dropped
    /\ totalMark = ClrIdle.totalMark
    /\ totalPercent = ClrIdle.totalPercent
    /\ coTasks = CoIdle.coTasks
    /\ coFiles = CoIdle.coFiles
    /\ ffmpeg_installed = CoIdle.ffmpeg_installed

\* get_response builds the GET for last_url with its headers and hands it to
\* client.execute_resumable: the request goes out.
BuildRequest ==
    /\ grPc = "build"
    /\ wire' = wire \cup {[url |-> last_url,
                           referer |-> RequestReferer(referer, last_url),
                           by |-> "get_response"]}
    /\ transport' = [hops |-> 0, url |-> last_url]
    /\ grPc' = "execute"
    /\ GrFrame
    /\ UNCHANGED <<client, referer, last_url, redirect_count, grResult, response,
                   serverRedirects, redirectsSeen>>

\* The request fails for good (connect error, retries exhausted):
\* execute_resumable returns Err, get_response "failed to request url".
RequestFails ==
    /\ grPc = "execute"
    /\ grPc' = "done"
    /\ grResult' = "failed to request url"
    /\ GrFrame
    /\ UNCHANGED <<client, referer, last_url, redirect_count, response,
                   transport, wire, serverRedirects, redirectsSeen>>

\* Whether the transport follows the answer itself.
TransportFollows(status, location) ==
    /\ RedirectPolicy(client) = "follow"
    /\ IsRedirectCode(status)
    /\ location = "url"

\* The server answers; the transport does not follow: the response is handed
\* to get_response.
ServerAnswers(status, location) ==
    /\ grPc = "execute"
    /\ ~TransportFollows(status, location)
    /\ response' = [status |-> status, location |-> location]
    /\ serverRedirects' =
         IF IsRedirectCode(status) /\ location = "url"
         THEN serverRedirects + 1 ELSE serverRedirects
    /\ redirectsSeen' =
         IF IsRedirectCode(status) /\ location = "url"
         THEN redirectsSeen + 1 ELSE redirectsSeen
    /\ grPc' = "handle"
    /\ GrFrame
    /\ UNCHANGED <<client, referer, last_url, redirect_count, grResult,
                   transport, wire>>

\* The server answers with a redirect and the transport follows it itself:
\* it issues the request for the Location target, or gives up with its own
\* redirect error once it has followed TransportRedirectLimit of them.
TransportRedirect(status, location) ==
    /\ grPc = "execute"
    /\ TransportFollows(status, location)
    /\ serverRedirects' = serverRedirects + 1
    /\ IF transport.hops >= TransportRedirectLimit
       THEN /\ grPc' = "done"
            /\ grResult' = "failed to request url"
            /\ UNCHANGED <<transport, wire>>
       ELSE /\ transport' = [hops |-> transport.hops + 1, url |-> transport.url + 1]
            /\ wire' = wire \cup {[url |-> transport.url + 1,
                                   referer |-> FollowReferer(transport.url),
                                   by |-> "transport"]}
            /\ UNCHANGED <<grPc, grResult>>
    /\ GrFrame
    /\ UNCHANGED <<client, referer, last_url, redirect_count, response,
                   redirectsSeen>>

\* get_response looks at the response: a redirect status with a Location is
\* followed by hand (or refused after 10), anything else is returned.
HandleResponse ==
    /\ grPc = "handle"
    /\ IF IsRedirectCode(response.status) /\ response.location # "none"
       THEN IF TooManyRedirects(redirect_count)
            THEN /\ grPc' = "done"
                 /\ grResult' = "more than 10 redirects"
                 /\ UNCHANGED <<redirect_count, last_url>>
            ELSE IF response.location = "nonstr"
            THEN /\ grPc' = "done"
                 /\ grResult' = "redirect url could not be converted to string"
                 /\ redirect_count' = redirect_count + 1
                 /\ UNCHANGED last_url
            ELSE /\ redirect_count' = redirect_count + 1
                 /\ last_url' = transport.url + 1
                 /\ grPc' = "build"
                 /\ UNCHANGED grResult
       ELSE /\ grPc' = "done"
            /\ grResult' = "ok"
            /\ UNCHANGED <<redirect_count, last_url>>
    /\ GrFrame
    /\ UNCHANGED <<client, referer, response, transport, wire, serverRedirects,
                   redirectsSeen>>

NextGR ==
    \/ BuildRequest
    \/ RequestFails
    \/ \E status \in Statuses, location \in Locations : ServerAnswers(status, location)
    \/ \E status \in Statuses, location \in Locations : TransportRedirect(status, location)
    \/ HandleResponse

SpecGR == InitGR /\ [][NextGR]_vars

(***************************************************************************)
(*        process_chunk: the decryptor of one segment of m3u8_download     *)
(***************************************************************************)
BlockSize    == 16   \* AES block: total_to_decrypt.len() & !0b1111
MaxPlainLen  == 17   \* longest segment plaintext tried
MaxJunk      == 2    \* most bytes appended to a well-formed ciphertext

Blocks16 == 1..BlockSize

RECURSIVE XorBits(_, _, _)
XorBits(a, b, n) ==
    IF n = 0 THEN 0
    ELSE (((a % 2) + (b % 2)) % 2) + 2 * XorBits(a \div 2, b \div 2, n - 1)

\* Bytewise exclusive or of two blocks (the chaining of CBC).
Xor(a, b) == XorBits(a, b, 8)
XorBlock(A, B) == [i \in Blocks16 |-> Xor(A[i], B[i])]

\* The AES-128 block function is the aes crate's. It is modelled by a keyed
\* bijection on 16-byte blocks (rotate the bytes, add the key bytewise); what
\* process_chunk relies on is that decryption inverts encryption, blockwise.
Rot(i)    == (i % BlockSize) + 1
RotInv(j) == ((j + BlockSize - 2) % BlockSize) + 1
EncBlock(k, B) == [i \in Blocks16 |-> (B[Rot(i)] + k[i]) % 256]
DecBlock(k, C) == [j \in Blocks16 |-> (C[RotInv(j)] + 256 - k[RotInv(j)]) % 256]

\* The i-th 16-byte block of a byte sequence, as a function on 1..16.
BlockAt(data, i) == [j \in Blocks16 |-> data[(i - 1) * BlockSize + j]]
\* A block back as a byte sequence.
BlockSeq(B) == [j \in Blocks16 |-> B[j]]

\* cbc::Decryptor::decrypt_blocks: each block is decrypted and xored with the
\* previous ciphertext block (the IV for the first); the last ciphertext
\* block is the IV the decryptor keeps for its next call.
RECURSIVE CbcDecrypt(_, _, _)
CbcDecrypt(k, iv, data) ==
    IF Len(data) = 0 THEN <<>>
    ELSE LET n == Len(data) \div BlockSize
             last == BlockAt(data, n)
             before == SubSeq(data, 1, (n - 1) * BlockSize)
             prev == IF n = 1 THEN iv ELSE BlockAt(data, n - 1)
         IN CbcDecrypt(k, iv, before) \o BlockSeq(XorBlock(DecBlock(k, last), prev))

CbcNextIv(iv, data) ==
    IF Len(data) = 0 THEN iv ELSE BlockAt(data, Len(data) \div BlockSize)

\* What a server does to make the segment: PKCS7-pad, then CBC-encrypt.
Pkcs7Pad(p) ==
    LET n == BlockSize - (Len(p) % BlockSize)
    IN p \o [i \in 1..n |-> n]

RECURSIVE CbcEncrypt(_, _, _)
CbcEncrypt(k, iv, data) ==
    IF Len(data) = 0 THEN <<>>
    ELSE LET n == Len(data) \div BlockSize
             before == CbcEncrypt(k, iv, SubSeq(data, 1, (n - 1) * BlockSize))
             prev == IF n = 1 THEN iv ELSE BlockAt(before, n - 1)
         IN before \o BlockSeq(EncBlock(k, XorBlock(BlockAt(data, n), prev)))

\* Pkcs7::unpad_blocks: no block, a last byte that is 0 or more than 16, or
\* padding bytes that differ from it are an UnpadError; otherwise the length
\* of the data without its padding.
Pkcs7UnpadLen(data) ==
    IF Len(data) = 0 THEN -1
    ELSE LET n == data[Len(data)]
         IN IF n = 0 \/ n > BlockSize THEN -1
            ELSE IF \E i \in 1..n : data[Len(data) - i + 1] # n THEN -1
            ELSE Len(data) - n

\* total_to_decrypt.len() & !0b1111: the previous multiple of 16.
DecryptableLenLazy(n) ==
    IF n < 2 * BlockSize THEN 0 ELSE n - BlockSize - (n % BlockSize)
DecryptableLen(n) == n - (n % BlockSize)

\* Unpadding is applied to the flush only (is_last_chunk).
UnpadNowAlways(isFlush) == TRUE
UnpadNow(isFlush) == isFlush

\* The Aes128 branch of process_chunk for current_chunk = Some(cur): the
\* decryptor it leaves, the bytes to write, or the error it bails with.
Aes128Chunk(key, d, cur, isFlush) ==
    LET total == d.rest_to_decrypt \o cur
        decryptable_len == DecryptableLen(Len(total))
        rest_data == SubSeq(total, decryptable_len + 1, Len(total))
        to_decrypt == SubSeq(total, 1, decryptable_len)
        tail == Len(to_decrypt) % BlockSize
        plain == CbcDecrypt(key, d.iv, to_decrypt)
        d2 == [d EXCEPT !.rest_to_decrypt = rest_data,
                        !.iv = CbcNextIv(d.iv, to_decrypt)]
        unpadded == Pkcs7UnpadLen(plain)
    IN IF tail # 0
       THEN [decryptor |-> [d EXCEPT !.rest_to_decrypt = rest_data],
             write |-> None, error |-> "decryption blocks have tail"]
       ELSE IF UnpadNow(isFlush)
       THEN IF unpadded < 0
            THEN [decryptor |-> d2, write |-> None, error |-> "failed to unpad data"]
            ELSE [decryptor |-> d2, write |-> Some(SubSeq(plain, 1, unpadded)),
                  error |-> "none"]
       ELSE [decryptor |-> d2, write |-> Some(plain), error |-> "none"]

\* chunk_to_write of process_chunk; chunk is Some(bytes) for NewChunk and
\* None for FlushLastChunkIfExists.
ChunkToWrite(key, d, chunk) ==
    IF d.kind = "None"
    THEN [decryptor |-> d, write |-> chunk, error |-> "none"]
    ELSE LET isFlush == chunk = None
             current_chunk == d.last_chunk
             d1 == [d EXCEPT !.last_chunk = chunk]
         IN IF current_chunk # None
            THEN Aes128Chunk(key, d1, Unwrap(current_chunk), isFlush)
            ELSE [decryptor |-> d1, write |-> None, error |-> "none"]

\* The decryptor m3u8_download builds for a segment.
NewDecryptorZeroIv(method, iv) ==
    IF method = "AES-128"
    THEN [kind |-> "Aes128", iv |-> [i \in Blocks16 |-> 0], last_chunk |-> None,
          rest_to_decrypt |-> <<>>]
    ELSE [kind |-> "None", iv |-> <<>>, last_chunk |-> None, rest_to_decrypt |-> <<>>]

NewDecryptor(method, iv) ==
    IF method = "AES-128"
    THEN [kind |-> "Aes128", iv |-> iv, last_chunk |-> None, rest_to_decrypt |-> <<>>]
    ELSE [kind |-> "None", iv |-> <<>>, last_chunk |-> None, rest_to_decrypt |-> <<>>]

\* ---- the segments tried
KeyIvs ==
    {[key |-> [i \in Blocks16 |-> (i * 11) % 256], iv |-> [i \in Blocks16 |-> 0]],
     [key |-> [i \in Blocks16 |-> 255 - i],
      iv |-> [i \in Blocks16 |-> (i * 37 + 200) % 256]]}

\* Plaintexts: a mixed pattern, and one of bytes that look like padding.
PlainOf(pat, n) ==
    IF pat = "mixed" THEN [i \in 1..n |-> (i * 7 + 3) % 256]
    ELSE [i \in 1..n |-> 1]

Plains == {PlainOf(pat, n) : pat \in {"mixed", "ones"}, n \in 0..MaxPlainLen}

\* Well-formed encrypted segments.
GoodSegments ==
    {[method |-> "AES-128", key |-> kv.key, iv |-> kv.iv, plain |-> p,
      shape |-> "good", data |-> CbcEncrypt(kv.key, kv.iv, Pkcs7Pad(p))] :
        kv \in KeyIvs, p \in Plains}

\* Malformed ones: bytes appended after the last block, or the last
\* ciphertext byte changed.
JunkSegments ==
    {[method |-> "AES-128", key |-> g.key, iv |-> g.iv, plain |-> g.plain,
      shape |-> "junk", data |-> g.data \o [i \in 1..j |-> 170]] :
        g \in {x \in GoodSegments : x.key[1] = 11 /\ Len(x.plain) \in {0, 3, 16}},
        j \in 1..MaxJunk}

DamagedSegments ==
    {[method |-> "AES-128", key |-> g.key, iv |-> g.iv, plain |-> g.plain,
      shape |-> "damaged",
      data |-> [g.data EXCEPT ![Len(g.data)] = (@ + 1) % 256]] :
        g \in {x \in GoodSegments : x.key[1] = 11 /\ Len(x.plain) \in {3, 16}}}

\* Segments without encryption.
PlainSegments ==
    {[method |-> "NONE", key |-> <<>>, iv |-> <<>>, plain |-> p, shape |-> "good",
      data |-> p] : p \in {PlainOf("mixed", n) : n \in {0, 1, 5}}}

Segments == GoodSegments \cup JunkSegments \cup DamagedSegments \cup PlainSegments

PcFrame == UNCHANGED <<dmVars, grVars, hlsVars, selVars, catVars, pbVars, styleVars, rcVars, rmxVars, dtfVars, retryVars, fmtVars, batchVars, clrVars, coVars>>

InitPC ==
    /\ seg \in Segments
    /\ pos = 0
    /\ decryptor = NewDecryptor(seg.method, seg.iv)
    /\ written = <<>>
    /\ segPc = "read"
    /\ segError = "none"
    /\ max_concurrent = DmIdle.max_concurrent
    /\ senderOpen = DmIdle.senderOpen
    /\ sent = DmIdle.sent
    /\ rx_stream = DmIdle.rx_stream
    /\ streamDone = DmIdle.streamDone
    /\ inflight = DmIdle.inflight
    /\ startCount = DmIdle.startCount
    /\ returned = DmIdle.returned
    /\ warned = DmIdle.warned
    /\ dmPc = DmIdle.dmPc
    /\ tickPc = DmIdle.tickPc
    /\ client = GrIdle.client
    /\ referer = GrIdle.referer
    /\ last_url = GrIdle.last_url
    /\ redirect_count = GrIdle.redirect_count
    /\ grPc = GrIdle.grPc
    /\ grResult = GrIdle.grResult
    /\ response = GrIdle.response
    /\ transport = GrIdle.transport
    /\ wire = GrIdle.wire
    /\ serverRedirects = GrIdle.serverRedirects
    /\ redirectsSeen = GrIdle.redirectsSeen
    /\ playlist = HlsIdle.playlist
    /\ segPos = HlsIdle.segPos
    /\ segement_index = HlsIdle.segement_index
    /\ current_encryption = HlsIdle.current_encryption
    /\ keyFetches = HlsIdle.keyFetches
    /\ segLog = HlsIdle.segLog
    /\ hlsPc = HlsIdle.hlsPc
    /\ hlsError = HlsIdle.hlsError
    /\ hlsEntry = HlsIdle.hlsEntry
    /\ segRequests = HlsIdle.segRequests
    /\ doc = SelIdle.doc
    /\ served = SelIdle.served
    /\ highest_quality_variant = SelIdle.highest_quality_variant
    /\ media_playlist = SelIdle.media_playlist
    /\ segmentsFetched = SelIdle.segmentsFetched
    /\ selPc = SelIdle.selPc
    /\ selError = SelIdle.selError
    /\ media_segments = CatIdle.media_segments
    /\ segIdx = CatIdle.segIdx
    /\ requested = CatIdle.requested
    /\ chunkPos = CatIdle.chunkPos
    /\ segDecryptor = CatIdle.segDecryptor
    /\ output_stream = CatIdle.output_stream
    /\ downloaded_bytes = CatIdle.downloaded_bytes
    /\ catPc = CatIdle.catPc
    /\ catError = CatIdle.catError
    /\ transfers = PbIdle.transfers
    /\ sub_progresses = PbIdle.sub_progresses
    /\ bars = PbIdle.bars
    /\ total_progress = PbIdle.total_progress
    /\ state = StyleIdle.state
    /\ w = StyleIdle.w
    /\ borrowFlag = RcIdle.borrowFlag
    /\ running = RcIdle.running
    /\ rcTasks = RcIdle.rcTasks
    /\ panicked = RcIdle.panicked
    /\ ffmpeg_path = RmxIdle.ffmpeg_path
    /\ debug = RmxIdle.debug
    /\ rmxSegments = RmxIdle.rmxSegments
    /\ flushed = RmxIdle.flushed
    /\ ffmpeg_cmd = RmxIdle.ffmpeg_cmd
    /\ ffmpeg_result = RmxIdle.ffmpeg_result
    /\ disk = RmxIdle.disk
    /\ rmxLog = RmxIdle.rmxLog
    /\ rmxEntry = RmxIdle.rmxEntry
    /\ rmxPc = RmxIdle.rmxPc
    /\ rmxResult = RmxIdle.rmxResult
    /\ task = DtfIdle.task
    /\ response_url = DtfIdle.response_url
    /\ is_m3u8 = DtfIdle.is_m3u8
    /\ output_path = DtfIdle.output_path
    /\ message = DtfIdle.message
    /\ files = DtfIdle.files
    /\ files0 = DtfIdle.files0
    /\ dtfEntries = DtfIdle.dtfEntries
    /\ dtfPc = DtfIdle.dtfPc
    /\ dtfResult = DtfIdle.dtfResult
    /\ resStatus = RetryIdle.resStatus
    /\ retryable = RetryIdle.retryable
    /\ n_past_retries = RetryIdle.n_past_retries
    /\ handed = RetryIdle.handed
    /\ retryPc = RetryIdle.retryPc
    /\ episode_info = FmtIdle.episode_info
    /\ formatted = FmtIdle.formatted
    /\ episodes_request = BatchIdle.episodes_request
    /\ max_episodes = BatchIdle.max_episodes
    /\ episode = BatchIdle.episode
    /\ got_error = BatchIdle.got_error
    /\ scrapeWarned = BatchIdle.scrapeWarned
    /\ batchChannel = BatchIdle.batchChannel
    /\ transferWarned = BatchIdle.transferWarned
    /\ downloader_result = BatchIdle.downloader_result
    /\ fatal = BatchIdle.fatal
    /\ exit_status = BatchIdle.exit_status
    /\ dropped = ClrIdle.dropped
    /\ totalMark = ClrIdle.totalMark
    /\ totalPercent = ClrIdle.totalPercent
    /\ coTasks = CoIdle.coTasks
    /\ coFiles = CoIdle.coFiles
    /\ ffmpeg_installed = CoIdle.ffmpeg_installed

\* What process_chunk does with chunk_to_write r: nothing to write, a write
\* that succeeds, or one that fails (write_all of no bytes cannot fail).
\* after is the position the caller is at when process_chunk returns Ok.
WriteOutcome(r, after) ==
    IF r.error # "none"
    THEN /\ segPc' = "error" /\ segError' = r.error
         /\ UNCHANGED written
    ELSE IF r.write = None
    THEN /\ segPc' = after
         /\ UNCHANGED <<written, segError>>
    ELSE \/ /\ written' = written \o Unwrap(r.write)
            /\ segPc' = after
            /\ UNCHANGED segError
         \/ /\ Len(Unwrap(r.write)) > 0
            /\ segPc' = "error"
            /\ segError' = "failed writing to download file"
            /\ UNCHANGED written

\* limited_stream.read returns n bytes: process_chunk(NewChunk(chunk)).
ReadChunk ==
    /\ segPc = "read"
    /\ \E n \in 1..(Len(seg.data) - pos) :
         LET r == ChunkToWrite(seg.key, decryptor, Some(SubSeq(seg.data, pos + 1, pos + n)))
         IN /\ pos' = pos + n
            /\ decryptor' = r.decryptor
            /\ WriteOutcome(r, "read")
    /\ PcFrame
    /\ UNCHANGED seg

\* limited_stream.read returns an error.
ReadError ==
    /\ segPc = "read"
    /\ segPc' = "error"
    /\ segError' = "failed download"
    /\ PcFrame
    /\ UNCHANGED <<seg, pos, decryptor, written>>

\* limited_stream.read returns Ok(0): process_chunk(FlushLastChunkIfExists).
EndOfStream ==
    /\ segPc = "read"
    /\ pos = Len(seg.data)
    /\ LET r == ChunkToWrite(seg.key, decryptor, None)
       IN /\ decryptor' = r.decryptor
          /\ WriteOutcome(r, "flushed")
    /\ PcFrame
    /\ UNCHANGED <<seg, pos>>

NextPC ==
    \/ ReadChunk
    \/ ReadError
    \/ EndOfStream

SpecPC == InitPC /\ [][NextPC]_vars

(***************************************************************************)
(*        The segment loop of m3u8_download: key tags and decryptors       *)
(***************************************************************************)
MaxSegments == 3   \* longest media playlist tried

\* u128::to_be_bytes: n as len big-endian bytes.
RECURSIVE BeBytes(_, _)
BeBytes(n, len) ==
    IF len = 0 THEN <<>> ELSE Append(BeBytes(n \div 256, len - 1), n % 256)
ToBeBytes(n) == BeBytes(n, BlockSize)

\* The IV attribute of a key tag, as text: with or without the 0x prefix,
\* with hexadecimal digits or not, and the number the digits spell.
IvTexts ==
    {[prefix |-> TRUE,  hex |-> TRUE,  value |-> 5],
     [prefix |-> FALSE, hex |-> TRUE,  value |-> 5],
     [prefix |-> TRUE,  hex |-> FALSE, value |-> 0]}

\* The bodies the key URIs answer with: two keys and one of 15 bytes.
KeyBody(uri) ==
    IF uri = "k1" THEN [i \in Blocks16 |-> (i * 11) % 256]
    ELSE IF uri = "k2" THEN [i \in Blocks16 |-> 255 - i]
    ELSE [i \in 1..(BlockSize - 1) |-> i]

\* The EXT-X-KEY tags tried (segment.key = Some(tag)).
KeyTags ==
    {[method |-> "NONE", iv |-> None, uri |-> None],
     [method |-> "SAMPLE-AES", iv |-> None, uri |-> Some("k1")],
     [method |-> "OTHER", iv |-> None, uri |-> Some("k1")],
     [method |-> "AES-256", iv |-> None, uri |-> Some("k1")],
     [method |-> "AES-128", iv |-> None, uri |-> None]}
    \cup {[method |-> "AES-128", iv |-> None, uri |-> Some(u)] : u \in {"k1", "k2", "short"}}
    \cup {[method |-> "AES-128", iv |-> Some(t), uri |-> Some("k1")] : t \in IvTexts}

SegmentsOfLen(n) == [1..n -> {[key |-> None]} \cup {[key |-> Some(t)] : t \in KeyTags}]

Playlists ==
    {[media_sequence |-> ms, segments |-> ss] :
        ms \in {0, 258}, ss \in UNION {SegmentsOfLen(n) : n \in 0..MaxSegments}}

\* The key tag of the segment the loop is at.
CurrentSegment == playlist.segments[segPos]

\* segment.key is None: current_encryption is left as it is.
InheritNothing(cur) == None
Inherit(cur) == cur

\* encryption.iv.unwrap_or_else(|| segement_index.to_be_bytes())
DefaultIvRelative(index) == ToBeBytes(index - playlist.media_sequence)
DefaultIv(index) == ToBeBytes(index)

\* anyhow::bail!("m3u8 SAMPLE-AES decryption not implemented") and
\* anyhow::bail!("m3u8 \"{other}\" decryption not implemented")
NotImplemented(method) ==
    IF method = "SAMPLE-AES" THEN "m3u8 SAMPLE-AES decryption not implemented"
    ELSE IF method = "AES-256" THEN "m3u8 \"AES-256\" decryption not implemented"
    ELSE "m3u8 \"OTHER\" decryption not implemented"

\* error_cleanup_progress_bar precedes every return of an error.
EntryAfter(pc) == IF pc = "error" THEN "Abandoned" ELSE hlsEntry

\* What the key block of the loop body decides for a key tag, before the key
\* is requested: an error, no encryption, or the IV to keep.
KeyTagCheckLenient(tag) ==
    IF tag.method # "AES-128" THEN [error |-> "none", encrypt |-> FALSE, iv |-> None]
    ELSE [error |-> "none", encrypt |-> TRUE, iv |-> None]
KeyTagCheck(tag) ==
    IF tag.method = "NONE" THEN [error |-> "none", encrypt |-> FALSE, iv |-> None]
    ELSE IF tag.method = "SAMPLE-AES"
    THEN [error |-> NotImplemented(tag.method), encrypt |-> FALSE, iv |-> None]
    ELSE IF tag.method # "AES-128"
    THEN [error |-> NotImplemented(tag.method), encrypt |-> FALSE, iv |-> None]
    ELSE IF tag.iv # None /\ ~Unwrap(tag.iv).prefix
    THEN [error |-> "decryption iv not in hexadecimal format", encrypt |-> FALSE, iv |-> None]
    ELSE IF tag.iv # None /\ ~Unwrap(tag.iv).hex
    THEN [error |-> "failed to parse decryption iv to integer", encrypt |-> FALSE, iv |-> None]
    ELSE IF tag.uri = None
    THEN [error |-> "no uri for decryption key provided", encrypt |-> FALSE, iv |-> None]
    ELSE [error |-> "none", encrypt |-> TRUE,
          iv |-> IF tag.iv = None THEN None ELSE Some(ToBeBytes(Unwrap(tag.iv).value))]

HlsFrame == UNCHANGED <<dmVars, grVars, pcVars, selVars, catVars, pbVars, styleVars, rcVars, rmxVars, dtfVars, retryVars, fmtVars, batchVars, clrVars, coVars>>

InitHLS ==
    /\ playlist \in Playlists
    /\ segPos = 1
    /\ segement_index = playlist.media_sequence
    /\ current_encryption = None
    /\ keyFetches = <<>>
    /\ segLog = <<>>
    /\ hlsPc = IF Len(playlist.segments) = 0 THEN "done" ELSE "key"
    /\ hlsError = "none"
    /\ hlsEntry = "ProgressBar"
    /\ segRequests = <<>>
    /\ max_concurrent = DmIdle.max_concurrent
    /\ senderOpen = DmIdle.senderOpen
    /\ sent = DmIdle.sent
    /\ rx_stream = DmIdle.rx_stream
    /\ streamDone = DmIdle.streamDone
    /\ inflight = DmIdle.inflight
    /\ startCount = DmIdle.startCount
    /\ returned = DmIdle.returned
    /\ warned = DmIdle.warned
    /\ dmPc = DmIdle.dmPc
    /\ tickPc = DmIdle.tickPc
    /\ client = GrIdle.client
    /\ referer = GrIdle.referer
    /\ last_url = GrIdle.last_url
    /\ redirect_count = GrIdle.redirect_count
    /\ grPc = GrIdle.grPc
    /\ grResult = GrIdle.grResult
    /\ response = GrIdle.response
    /\ transport = GrIdle.transport
    /\ wire = GrIdle.wire
    /\ serverRedirects = GrIdle.serverRedirects
    /\ redirectsSeen = GrIdle.redirectsSeen
    /\ seg = PcIdle.seg
    /\ pos = PcIdle.pos
    /\ decryptor = PcIdle.decryptor
    /\ written = PcIdle.written
    /\ segPc = PcIdle.segPc
    /\ segError = PcIdle.segError
    /\ doc = SelIdle.doc
    /\ served = SelIdle.served
    /\ highest_quality_variant = SelIdle.highest_quality_variant
    /\ media_playlist = SelIdle.media_playlist
    /\ segmentsFetched = SelIdle.segmentsFetched
    /\ selPc = SelIdle.selPc
    /\ selError = SelIdle.selError
    /\ media_segments = CatIdle.media_segments
    /\ segIdx = CatIdle.segIdx
    /\ requested = CatIdle.requested
    /\ chunkPos = CatIdle.chunkPos
    /\ segDecryptor = CatIdle.segDecryptor
    /\ output_stream = CatIdle.output_stream
    /\ downloaded_bytes = CatIdle.downloaded_bytes
    /\ catPc = CatIdle.catPc
    /\ catError = CatIdle.catError
    /\ transfers = PbIdle.transfers
    /\ sub_progresses = PbIdle.sub_progresses
    /\ bars = PbIdle.bars
    /\ total_progress = PbIdle.total_progress
    /\ state = StyleIdle.state
    /\ w = StyleIdle.w
    /\ borrowFlag = RcIdle.borrowFlag
    /\ running = RcIdle.running
    /\ rcTasks = RcIdle.rcTasks
    /\ panicked = RcIdle.panicked
    /\ ffmpeg_path = RmxIdle.ffmpeg_path
    /\ debug = RmxIdle.debug
    /\ rmxSegments = RmxIdle.rmxSegments
    /\ flushed = RmxIdle.flushed
    /\ ffmpeg_cmd = RmxIdle.ffmpeg_cmd
    /\ ffmpeg_result = RmxIdle.ffmpeg_result
    /\ disk = RmxIdle.disk
    /\ rmxLog = RmxIdle.rmxLog
    /\ rmxEntry = RmxIdle.rmxEntry
    /\ rmxPc = RmxIdle.rmxPc
    /\ rmxResult = RmxIdle.rmxResult
    /\ task = DtfIdle.task
    /\ response_url = DtfIdle.response_url
    /\ is_m3u8 = DtfIdle.is_m3u8
    /\ output_path = DtfIdle.output_path
    /\ message = DtfIdle.message
    /\ files = DtfIdle.files
    /\ files0 = DtfIdle.files0
    /\ dtfEntries = DtfIdle.dtfEntries
    /\ dtfPc = DtfIdle.dtfPc
    /\ dtfResult = DtfIdle.dtfResult
    /\ resStatus = RetryIdle.resStatus
    /\ retryable = RetryIdle.retryable
    /\ n_past_retries = RetryIdle.n_past_retries
    /\ handed = RetryIdle.handed
    /\ retryPc = RetryIdle.retryPc
    /\ episode_info = FmtIdle.episode_info
    /\ formatted = FmtIdle.formatted
    /\ episodes_request = BatchIdle.episodes_request
    /\ max_episodes = BatchIdle.max_episodes
    /\ episode = BatchIdle.episode
    /\ got_error = BatchIdle.got_error
    /\ scrapeWarned = BatchIdle.scrapeWarned
    /\ batchChannel = BatchIdle.batchChannel
    /\ transferWarned = BatchIdle.transferWarned
    /\ downloader_result = BatchIdle.downloader_result
    /\ fatal = BatchIdle.fatal
    /\ exit_status = BatchIdle.exit_status
    /\ dropped = ClrIdle.dropped
    /\ totalMark = ClrIdle.totalMark
    /\ totalPercent = ClrIdle.totalPercent
    /\ coTasks = CoIdle.coTasks
    /\ coFiles = CoIdle.coFiles
    /\ ffmpeg_installed = CoIdle.ffmpeg_installed

\* The segment has no key tag: nothing to resolve.
NoKeyTag ==
    /\ hlsPc = "key"
    /\ CurrentSegment.key = None
    /\ current_encryption' = Inherit(current_encryption)
    /\ hlsPc' = "segment"
    /\ HlsFrame
    /\ UNCHANGED <<playlist, segPos, segement_index, keyFetches, segLog, hlsError,
                   hlsEntry, segRequests>>

\* The segment has a key tag that needs no request: method NONE clears the
\* encryption, an unsupported method or a malformed IV or URI fails.
KeyTagLocal ==
    /\ hlsPc = "key"
    /\ CurrentSegment.key # None
    /\ LET c == KeyTagCheck(Unwrap(CurrentSegment.key))
       IN /\ ~c.encrypt
          /\ IF c.error # "none"
             THEN /\ hlsPc' = "error" /\ hlsError' = c.error
                  /\ UNCHANGED current_encryption
             ELSE /\ current_encryption' = None
                  /\ hlsPc' = "segment"
                  /\ UNCHANGED hlsError
    /\ hlsEntry' = EntryAfter(hlsPc')
    /\ HlsFrame
    /\ UNCHANGED <<playlist, segPos, segement_index, keyFetches, segLog, segRequests>>

\* The segment has an AES-128 key tag: the key is requested; the request
\* fails, or reading its body fails, or the body is the key if it has 16
\* bytes.
KeyTagFetch(fetch) ==
    /\ hlsPc = "key"
    /\ CurrentSegment.key # None
    /\ LET tag == Unwrap(CurrentSegment.key)
           c == KeyTagCheck(tag)
       IN /\ c.encrypt
          /\ keyFetches' = Append(keyFetches, Unwrap(tag.uri))
          /\ IF fetch = "no response"
             THEN /\ hlsPc' = "error"
                  /\ hlsError' = "failed to get response of decryption key"
                  /\ UNCHANGED current_encryption
             ELSE IF fetch = "no bytes"
             THEN /\ hlsPc' = "error"
                  /\ hlsError' = "failed to get bytes of decryption key"
                  /\ UNCHANGED current_encryption
             ELSE IF Len(KeyBody(Unwrap(tag.uri))) # BlockSize
             THEN /\ hlsPc' = "error"
                  /\ hlsError' = "failed to convert key to array"
                  /\ UNCHANGED current_encryption
             ELSE /\ current_encryption' =
                       Some([method |-> "AES-128", key |-> KeyBody(Unwrap(tag.uri)),
                             iv |-> c.iv])
                  /\ hlsPc' = "segment"
                  /\ UNCHANGED hlsError
    /\ hlsEntry' = EntryAfter(hlsPc')
    /\ HlsFrame
    /\ UNCHANGED <<playlist, segPos, segement_index, segLog, segRequests>>

\* The decryptor built for the segment from current_encryption.
SegmentDecryptor ==
    IF current_encryption # None
    THEN LET e == Unwrap(current_encryption)
         IN [kind |-> "Aes128", key |-> e.key,
             iv |-> IF e.iv # None THEN Unwrap(e.iv) ELSE DefaultIv(segement_index)]
    ELSE [kind |-> "None", key |-> <<>>, iv |-> <<>>]

\* The request for the segment fails.
SegmentFetchFails ==
    /\ hlsPc = "segment"
    /\ hlsPc' = "error"
    /\ hlsError' = "failed to get segment response"
    /\ segRequests' = Append(segRequests, segPos)
    /\ hlsEntry' = EntryAfter(hlsPc')
    /\ HlsFrame
    /\ UNCHANGED <<playlist, segPos, segement_index, current_encryption,
                   keyFetches, segLog>>

\* The segment is fetched, its decryptor built, its bytes streamed through
\* process_chunk and flushed; the loop moves to the next segment, or the
\* streaming fails.
SegmentStreamed(streamOk) ==
    /\ hlsPc = "segment"
    /\ segLog' = Append(segLog, SegmentDecryptor)
    /\ segRequests' = Append(segRequests, segPos)
    /\ IF streamOk
       THEN /\ segPos' = segPos + 1
            /\ segement_index' = segement_index + 1
            /\ hlsPc' = IF segPos = Len(playlist.segments) THEN "done" ELSE "key"
            /\ UNCHANGED hlsError
       ELSE /\ hlsPc' = "error"
            /\ hlsError' = "failed download"
            /\ UNCHANGED <<segPos, segement_index>>
    /\ hlsEntry' = EntryAfter(hlsPc')
    /\ HlsFrame
    /\ UNCHANGED <<playlist, current_encryption, keyFetches>>

NextHLS ==
    \/ NoKeyTag
    \/ KeyTagLocal
    \/ \E fetch \in {"ok", "no response", "no bytes"} : KeyTagFetch(fetch)
    \/ SegmentFetchFails
    \/ \E streamOk \in BOOLEAN : SegmentStreamed(streamOk)

SpecHLS == InitHLS /\ [][NextHLS]_vars

\* The position of the last key tag at or before segment i (0: none).
RECURSIVE LastTagPos(_)
LastTagPos(i) ==
    IF i = 0 THEN 0
    ELSE IF playlist.segments[i].key # None THEN i
    ELSE LastTagPos(i - 1)

(***************************************************************************)
(*   m3u8_download: master playlist, variant selection, media playlist     *)
(***************************************************************************)
MaxVariants == 3   \* longest variant list of a master playlist tried

\* Resolution { width, height } of a variant, if the playlist states one.
Resolutions ==
    {None, Some([width |-> 1, height |-> 1]), Some([width |-> 2, height |-> 1])}

\* The variants tried: every combination of the optional attributes for
\* the ordinary ones, and one I-frame variant of the best resolution.
Variants ==
    {[is_i_frame |-> FALSE, resolution |-> r, average_bandwidth |-> a, bandwidth |-> b] :
        r \in Resolutions, a \in {None, Some(1), Some(2)}, b \in {1, 2, 3}}
    \cup {[is_i_frame |-> TRUE, resolution |-> Some([width |-> 2, height |-> 1]),
           average_bandwidth |-> None, bandwidth |-> 3]}

\* Ordering::reverse
Reverse(o) == IF o = "Less" THEN "Greater" ELSE IF o = "Greater" THEN "Less" ELSE "Equal"
\* u64::cmp
Cmp(x, y) == IF x < y THEN "Less" ELSE IF x > y THEN "Greater" ELSE "Equal"

Pixels(res) == res.width * res.height

\* The comparator handed to select_nth_unstable_by.
Compare(a, b) ==
    IF a.is_i_frame /\ b.is_i_frame THEN "Equal"
    ELSE IF a.is_i_frame THEN "Greater"
    ELSE IF b.is_i_frame THEN "Less"
    ELSE IF /\ a.resolution # None /\ b.resolution # None
            /\ Pixels(Unwrap(a.resolution)) # Pixels(Unwrap(b.resolution))
    THEN Reverse(Cmp(Pixels(Unwrap(a.resolution)), Pixels(Unwrap(b.resolution))))
    ELSE IF a.average_bandwidth # None /\ b.average_bandwidth # None
    THEN Reverse(Cmp(Unwrap(a.average_bandwidth), Unwrap(b.average_bandwidth)))
    ELSE Reverse(Cmp(a.bandwidth, b.bandwidth))

\* The comparator is a total order on the list (what select_nth_unstable_by
\* asks of it).
IsTotalOrder(vs) ==
    \A i, j, k \in 1..Len(vs) :
        /\ Compare(vs[i], vs[j]) = Reverse(Compare(vs[j], vs[i]))
        /\ (Compare(vs[i], vs[j]) # "Greater" /\ Compare(vs[j], vs[k]) # "Greater")
              => Compare(vs[i], vs[k]) # "Greater"
        /\ (Compare(vs[i], vs[j]) = "Less" /\ Compare(vs[j], vs[k]) # "Greater")
              => Compare(vs[i], vs[k]) = "Less"

\* select_nth_unstable_by(0, compare).1: the positions the element at index
\* 0 may come from.  With a total order it is a least element (any of the
\* equal ones: the selection is unstable); otherwise the result is
\* unspecified.
SelectNth0(vs) ==
    IF IsTotalOrder(vs)
    THEN {i \in 1..Len(vs) : \A j \in 1..Len(vs) : Compare(vs[i], vs[j]) # "Greater"}
    ELSE 1..Len(vs)

\* The m3u8 documents tried and the media playlists behind the variants.
MediaPlaylists == {[kind |-> "media", i_frames_only |-> f, segments |-> 2] : f \in BOOLEAN}

Documents ==
    {[kind |-> "unparsable"]}
    \cup MediaPlaylists
    \cup {[kind |-> "master", variants |-> vs] :
            vs \in UNION {[1..n -> Variants] : n \in 0..MaxVariants}}

SelFrame == UNCHANGED <<dmVars, grVars, pcVars, hlsVars, catVars, pbVars, styleVars, rcVars, rmxVars, dtfVars, retryVars, fmtVars, batchVars, clrVars, coVars>>

InitSel ==
    /\ doc \in Documents
    /\ served \in MediaPlaylists \cup {[kind |-> "unparsable"]}
    /\ highest_quality_variant = None
    /\ media_playlist = None
    /\ segmentsFetched = 0
    /\ selPc = "parse"
    /\ selError = "none"
    /\ max_concurrent = DmIdle.max_concurrent
    /\ senderOpen = DmIdle.senderOpen
    /\ sent = DmIdle.sent
    /\ rx_stream = DmIdle.rx_stream
    /\ streamDone = DmIdle.streamDone
    /\ inflight = DmIdle.inflight
    /\ startCount = DmIdle.startCount
    /\ returned = DmIdle.returned
    /\ warned = DmIdle.warned
    /\ dmPc = DmIdle.dmPc
    /\ tickPc = DmIdle.tickPc
    /\ client = GrIdle.client
    /\ referer = GrIdle.referer
    /\ last_url = GrIdle.last_url
    /\ redirect_count = GrIdle.redirect_count
    /\ grPc = GrIdle.grPc
    /\ grResult = GrIdle.grResult
    /\ response = GrIdle.response
    /\ transport = GrIdle.transport
    /\ wire = GrIdle.wire
    /\ serverRedirects = GrIdle.serverRedirects
    /\ redirectsSeen = GrIdle.redirectsSeen
    /\ seg = PcIdle.seg
    /\ pos = PcIdle.pos
    /\ decryptor = PcIdle.decryptor
    /\ written = PcIdle.written
    /\ segPc = PcIdle.segPc
    /\ segError = PcIdle.segError
    /\ playlist = HlsIdle.playlist
    /\ segPos = HlsIdle.segPos
    /\ segement_index = HlsIdle.segement_index
    /\ current_encryption = HlsIdle.current_encryption
    /\ keyFetches = HlsIdle.keyFetches
    /\ segLog = HlsIdle.segLog
    /\ hlsPc = HlsIdle.hlsPc
    /\ hlsError = HlsIdle.hlsError
    /\ hlsEntry = HlsIdle.hlsEntry
    /\ segRequests = HlsIdle.segRequests
    /\ media_segments = CatIdle.media_segments
    /\ segIdx = CatIdle.segIdx
    /\ requested = CatIdle.requested
    /\ chunkPos = CatIdle.chunkPos
    /\ segDecryptor = CatIdle.segDecryptor
    /\ output_stream = CatIdle.output_stream
    /\ downloaded_bytes = CatIdle.downloaded_bytes
    /\ catPc = CatIdle.catPc
    /\ catError = CatIdle.catError
    /\ transfers = PbIdle.transfers
    /\ sub_progresses = PbIdle.sub_progresses
    /\ bars = PbIdle.bars
    /\ total_progress = PbIdle.total_progress
    /\ state = StyleIdle.state
    /\ w = StyleIdle.w
    /\ borrowFlag = RcIdle.borrowFlag
    /\ running = RcIdle.running
    /\ rcTasks = RcIdle.rcTasks
    /\ panicked = RcIdle.panicked
    /\ ffmpeg_path = RmxIdle.ffmpeg_path
    /\ debug = RmxIdle.debug
    /\ rmxSegments = RmxIdle.rmxSegments
    /\ flushed = RmxIdle.flushed
    /\ ffmpeg_cmd = RmxIdle.ffmpeg_cmd
    /\ ffmpeg_result = RmxIdle.ffmpeg_result
    /\ disk = RmxIdle.disk
    /\ rmxLog = RmxIdle.rmxLog
    /\ rmxEntry = RmxIdle.rmxEntry
    /\ rmxPc = RmxIdle.rmxPc
    /\ rmxResult = RmxIdle.rmxResult
    /\ task = DtfIdle.task
    /\ response_url = DtfIdle.response_url
    /\ is_m3u8 = DtfIdle.is_m3u8
    /\ output_path = DtfIdle.output_path
    /\ message = DtfIdle.message
    /\ files = DtfIdle.files
    /\ files0 = DtfIdle.files0
    /\ dtfEntries = DtfIdle.dtfEntries
    /\ dtfPc = DtfIdle.dtfPc
    /\ dtfResult = DtfIdle.dtfResult
    /\ resStatus = RetryIdle.resStatus
    /\ retryable = RetryIdle.retryable
    /\ n_past_retries = RetryIdle.n_past_retries
    /\ handed = RetryIdle.handed
    /\ retryPc = RetryIdle.retryPc
    /\ episode_info = FmtIdle.episode_info
    /\ formatted = FmtIdle.formatted
    /\ episodes_request = BatchIdle.episodes_request
    /\ max_episodes = BatchIdle.max_episodes
    /\ episode = BatchIdle.episode
    /\ got_error = BatchIdle.got_error
    /\ scrapeWarned = BatchIdle.scrapeWarned
    /\ batchChannel = BatchIdle.batchChannel
    /\ transferWarned = BatchIdle.transferWarned
    /\ downloader_result = BatchIdle.downloader_result
    /\ fatal = BatchIdle.fatal
    /\ exit_status = BatchIdle.exit_status
    /\ dropped = ClrIdle.dropped
    /\ totalMark = ClrIdle.totalMark
    /\ totalPercent = ClrIdle.totalPercent
    /\ coTasks = CoIdle.coTasks
    /\ coFiles = CoIdle.coFiles
    /\ ffmpeg_installed = CoIdle.ffmpeg_installed

\* bail!
SelBail(msg) ==
    /\ selPc' = "error"
    /\ selError' = msg
    /\ UNCHANGED <<highest_quality_variant, media_playlist>>

\* parse_playlist_res and the match on its result.
ParsePlaylist ==
    /\ selPc = "parse"
    /\ IF doc.kind = "unparsable" THEN SelBail("failed to parse m3u8")
       ELSE IF doc.kind = "media"
       THEN IF doc.i_frames_only THEN SelBail("is iframe media playlist")
            ELSE /\ media_playlist' = Some(doc)
                 /\ selPc' = "download"
                 /\ UNCHANGED <<highest_quality_variant, selError>>
       ELSE IF Len(doc.variants) = 0
       THEN SelBail("could not find any media playlists")
       ELSE \E i \in SelectNth0(doc.variants) :
              IF doc.variants[i].is_i_frame
              THEN SelBail("could not find a non-iframe media playlist")
              ELSE /\ highest_quality_variant' = Some(doc.variants[i])
                   /\ selPc' = "fetch"
                   /\ UNCHANGED <<media_playlist, selError>>
    /\ SelFrame
    /\ UNCHANGED <<doc, served, segmentsFetched>>

\* The media playlist of the selected variant is requested and parsed.
FetchMediaPlaylist(outcome) ==
    /\ selPc = "fetch"
    /\ IF outcome # "ok" THEN SelBail(outcome)
       ELSE IF served.kind = "unparsable"
       THEN SelBail("failed to parse m3u8 media playlist")
       ELSE /\ media_playlist' = Some(served)
            /\ selPc' = "download"
            /\ UNCHANGED <<highest_quality_variant, selError>>
    /\ SelFrame
    /\ UNCHANGED <<doc, served, segmentsFetched>>

\* The segment loop requests the next segment of the media playlist, or
\* the request fails.
FetchSegment(ok) ==
    /\ selPc = "download"
    /\ segmentsFetched < Unwrap(media_playlist).segments
    /\ segmentsFetched' = segmentsFetched + 1
    /\ IF ok THEN UNCHANGED <<selPc, selError>>
       ELSE /\ selPc' = "error" /\ selError' = "failed to get segment response"
    /\ SelFrame
    /\ UNCHANGED <<doc, served, highest_quality_variant, media_playlist>>

\* The segment loop is over.
SegmentsDone ==
    /\ selPc = "download"
    /\ segmentsFetched = Unwrap(media_playlist).segments
    /\ selPc' = "done"
    /\ SelFrame
    /\ UNCHANGED <<doc, served, highest_quality_variant, media_playlist,
                   segmentsFetched, selError>>

NextSel ==
    \/ ParsePlaylist
    \/ \E outcome \in {"ok", "failed to get m3u8 media playlist response",
                       "failed to get m3u8 media playlist bytes"} :
          FetchMediaPlaylist(outcome)
    \/ \E ok \in BOOLEAN : FetchSegment(ok)
    \/ SegmentsDone

SpecSel == InitSel /\ [][NextSel]_vars

(***************************************************************************)
(*        m3u8_download: the segments, one after the other, to the file    *)
(***************************************************************************)
MaxCatSegments == 2   \* longest media playlist tried

\* The segments tried: encrypted ones (5 and 16 bytes of plaintext, the
\* key with the non-zero IV) and ones without encryption.
CatSegments ==
    {g \in GoodSegments : Len(g.plain) \in {5, 16} /\ g.iv[1] # 0}
    \cup {p \in PlainSegments : Len(p.plain) \in {0, 5}}

\* Chunk sizes limited_stream.read returns for a body with n bytes left: a
\* part of a block, a whole block, or all that is left.
CatChunkSizes(n) == {k \in {7, BlockSize, n} : 1 <= k /\ k <= n}

CurSeg == media_segments[segIdx]

CatFrame == UNCHANGED <<dmVars, grVars, pcVars, hlsVars, selVars, pbVars, styleVars, rcVars, rmxVars, dtfVars, retryVars, fmtVars, batchVars, clrVars, coVars>>

InitCat ==
    /\ media_segments \in UNION {[1..n -> CatSegments] : n \in 0..MaxCatSegments}
    /\ segIdx = 1
    /\ requested = <<>>
    /\ chunkPos = 0
    /\ segDecryptor = CatIdle.segDecryptor
    /\ output_stream = <<>>
    /\ downloaded_bytes = 0
    /\ catPc = IF Len(media_segments) = 0 THEN "finish" ELSE "fetch"
    /\ catError = "none"
    /\ max_concurrent = DmIdle.max_concurrent
    /\ senderOpen = DmIdle.senderOpen
    /\ sent = DmIdle.sent
    /\ rx_stream = DmIdle.rx_stream
    /\ streamDone = DmIdle.streamDone
    /\ inflight = DmIdle.inflight
    /\ startCount = DmIdle.startCount
    /\ returned = DmIdle.returned
    /\ warned = DmIdle.warned
    /\ dmPc = DmIdle.dmPc
    /\ tickPc = DmIdle.tickPc
    /\ client = GrIdle.client
    /\ referer = GrIdle.referer
    /\ last_url = GrIdle.last_url
    /\ redirect_count = GrIdle.redirect_count
    /\ grPc = GrIdle.grPc
    /\ grResult = GrIdle.grResult
    /\ response = GrIdle.response
    /\ transport = GrIdle.transport
    /\ wire = GrIdle.wire
    /\ serverRedirects = GrIdle.serverRedirects
    /\ redirectsSeen = GrIdle.redirectsSeen
    /\ seg = PcIdle.seg
    /\ pos = PcIdle.pos
    /\ decryptor = PcIdle.decryptor
    /\ written = PcIdle.written
    /\ segPc = PcIdle.segPc
    /\ segError = PcIdle.segError
    /\ playlist = HlsIdle.playlist
    /\ segPos = HlsIdle.segPos
    /\ segement_index = HlsIdle.segement_index
    /\ current_encryption = HlsIdle.current_encryption
    /\ keyFetches = HlsIdle.keyFetches
    /\ segLog = HlsIdle.segLog
    /\ hlsPc = HlsIdle.hlsPc
    /\ hlsError = HlsIdle.hlsError
    /\ hlsEntry = HlsIdle.hlsEntry
    /\ segRequests = HlsIdle.segRequests
    /\ doc = SelIdle.doc
    /\ served = SelIdle.served
    /\ highest_quality_variant = SelIdle.highest_quality_variant
    /\ media_playlist = SelIdle.media_playlist
    /\ segmentsFetched = SelIdle.segmentsFetched
    /\ selPc = SelIdle.selPc
    /\ selError = SelIdle.selError
    /\ transfers = PbIdle.transfers
    /\ sub_progresses = PbIdle.sub_progresses
    /\ bars = PbIdle.bars
    /\ total_progress = PbIdle.total_progress
    /\ state = StyleIdle.state
    /\ w = StyleIdle.w
    /\ borrowFlag = RcIdle.borrowFlag
    /\ running = RcIdle.running
    /\ rcTasks = RcIdle.rcTasks
    /\ panicked = RcIdle.panicked
    /\ ffmpeg_path = RmxIdle.ffmpeg_path
    /\ debug = RmxIdle.debug
    /\ rmxSegments = RmxIdle.rmxSegments
    /\ flushed = RmxIdle.flushed
    /\ ffmpeg_cmd = RmxIdle.ffmpeg_cmd
    /\ ffmpeg_result = RmxIdle.ffmpeg_result
    /\ disk = RmxIdle.disk
    /\ rmxLog = RmxIdle.rmxLog
    /\ rmxEntry = RmxIdle.rmxEntry
    /\ rmxPc = RmxIdle.rmxPc
    /\ rmxResult = RmxIdle.rmxResult
    /\ task = DtfIdle.task
    /\ response_url = DtfIdle.response_url
    /\ is_m3u8 = DtfIdle.is_m3u8
    /\ output_path = DtfIdle.output_path
    /\ message = DtfIdle.message
    /\ files = DtfIdle.files
    /\ files0 = DtfIdle.files0
    /\ dtfEntries = DtfIdle.dtfEntries
    /\ dtfPc = DtfIdle.dtfPc
    /\ dtfResult = DtfIdle.dtfResult
    /\ resStatus = RetryIdle.resStatus
    /\ retryable = RetryIdle.retryable
    /\ n_past_retries = RetryIdle.n_past_retries
    /\ handed = RetryIdle.handed
    /\ retryPc = RetryIdle.retryPc
    /\ episode_info = FmtIdle.episode_info
    /\ formatted = FmtIdle.formatted
    /\ episodes_request = BatchIdle.episodes_request
    /\ max_episodes = BatchIdle.max_episodes
    /\ episode = BatchIdle.episode
    /\ got_error = BatchIdle.got_error
    /\ scrapeWarned = BatchIdle.scrapeWarned
    /\ batchChannel = BatchIdle.batchChannel
    /\ transferWarned = BatchIdle.transferWarned
    /\ downloader_result = BatchIdle.downloader_result
    /\ fatal = BatchIdle.fatal
    /\ exit_status = BatchIdle.exit_status
    /\ dropped = ClrIdle.dropped
    /\ totalMark = ClrIdle.totalMark
    /\ totalPercent = ClrIdle.totalPercent
    /\ coTasks = CoIdle.coTasks
    /\ coFiles = CoIdle.coFiles
    /\ ffmpeg_installed = CoIdle.ffmpeg_installed

\* get_response for the segment; on success the stream and the decryptor of
\* the segment are set up.
CatFetchSegment(ok) ==
    /\ catPc = "fetch"
    /\ requested' = Append(requested, segIdx)
    /\ IF ok
       THEN /\ segDecryptor' = NewDecryptor(CurSeg.method, CurSeg.iv)
            /\ chunkPos' = 0
            /\ catPc' = "read"
            /\ UNCHANGED catError
       ELSE /\ catPc' = "error"
            /\ catError' = "failed to get segment response"
            /\ UNCHANGED <<segDecryptor, chunkPos>>
    /\ CatFrame
    /\ UNCHANGED <<media_segments, segIdx, output_stream, downloaded_bytes>>

\* The tail of process_chunk: count and write chunk_to_write, if any; the
\* write may fail.
CatWrite(r, writeOk, after) ==
    IF r.error # "none"
    THEN /\ catPc' = "error" /\ catError' = r.error
         /\ UNCHANGED <<output_stream, downloaded_bytes>>
    ELSE IF r.write = None
    THEN /\ catPc' = after
         /\ UNCHANGED <<output_stream, downloaded_bytes, catError>>
    ELSE /\ downloaded_bytes' = downloaded_bytes + Len(Unwrap(r.write))
         /\ IF writeOk \/ Len(Unwrap(r.write)) = 0
            THEN /\ output_stream' = output_stream \o Unwrap(r.write)
                 /\ catPc' = after
                 /\ UNCHANGED catError
            ELSE /\ catPc' = "error"
                 /\ catError' = "failed writing to download file"
                 /\ UNCHANGED output_stream

\* limited_stream.read returns Ok(size): process_chunk(NewChunk).
CatReadChunk(n, writeOk) ==
    /\ catPc = "read"
    /\ n \in CatChunkSizes(Len(CurSeg.data) - chunkPos)
    /\ LET r == ChunkToWrite(CurSeg.key, segDecryptor,
                             Some(SubSeq(CurSeg.data, chunkPos + 1, chunkPos + n)))
       IN /\ chunkPos' = chunkPos + n
          /\ segDecryptor' = r.decryptor
          /\ CatWrite(r, writeOk, "read")
    /\ CatFrame
    /\ UNCHANGED <<media_segments, segIdx, requested>>

\* limited_stream.read returns Err.
CatReadError ==
    /\ catPc = "read"
    /\ catPc' = "error"
    /\ catError' = "failed download"
    /\ CatFrame
    /\ UNCHANGED <<media_segments, segIdx, requested, chunkPos, segDecryptor,
                   output_stream, downloaded_bytes>>

\* limited_stream.read returns Ok(0): process_chunk(FlushLastChunkIfExists),
\* then the loop goes to the next segment or ends.
CatEndOfSegment(writeOk) ==
    /\ catPc = "read"
    /\ chunkPos = Len(CurSeg.data)
    /\ LET r == ChunkToWrite(CurSeg.key, segDecryptor, None)
       IN /\ segDecryptor' = r.decryptor
          /\ CatWrite(r, writeOk,
                      IF segIdx = Len(media_segments) THEN "finish" ELSE "fetch")
    /\ segIdx' = IF catPc' = "error" THEN segIdx ELSE segIdx + 1
    /\ CatFrame
    /\ UNCHANGED <<media_segments, requested, chunkPos>>

\* After the loop: clean_up_write flushes and syncs the file, or fails.
CatFinish(ok) ==
    /\ catPc = "finish"
    /\ IF ok THEN /\ catPc' = "done" /\ UNCHANGED catError
       ELSE /\ catPc' = "error" /\ catError' = "failed flushing to download file"
    /\ CatFrame
    /\ UNCHANGED <<media_segments, segIdx, requested, chunkPos, segDecryptor,
                   output_stream, downloaded_bytes>>

NextCat ==
    \/ \E ok \in BOOLEAN : CatFetchSegment(ok)
    \/ \E n \in 1..(2 * BlockSize), writeOk \in BOOLEAN : CatReadChunk(n, writeOk)
    \/ CatReadError
    \/ \E writeOk \in BOOLEAN : CatEndOfSegment(writeOk)
    \/ \E ok \in BOOLEAN : CatFinish(ok)

SpecCat == InitCat /\ [][NextCat]_vars

(***************************************************************************)
(*     Downloader: the progress registry (sub_progresses, total_progress)  *)
(***************************************************************************)
MaxTransfers == 2   \* transfers that share the Downloader
U64Max       == 255 \* u64::MAX, scaled down: the value lengths saturate at

Max(a, b) == IF a >= b THEN a ELSE b

\* u64::saturating_add
SatAdd(a, b) == IF a + b > U64Max THEN U64Max ELSE a + b

\* ---- indicatif::ProgressBar, as far as the Downloader uses it
\* ProgressBar::new(len)
NewBarNoLength(len) == [pos |-> 0, len |-> None, status |-> "InProgress"]
NewBar(len) == [pos |-> 0, len |-> Some(len), status |-> "InProgress"]
\* ProgressBar::finish: done, and the position jumps to the length.
BarFinish(bar) ==
    [bar EXCEPT !.status = "DoneVisible",
                !.pos = IF bar.len # None THEN Unwrap(bar.len) ELSE bar.pos]
\* ProgressBar::abandon: done, position and length stay.
BarAbandon(bar) == [bar EXCEPT !.status = "DoneVisible"]
\* ProgressBar::is_finished
BarIsFinished(bar) == bar.status # "InProgress"

\* ---- ProgressBarOrResult
EntryIsFinished(e, bar) ==
    IF e.kind = "ProgressBar" THEN BarIsFinished(bar) ELSE e.kind = "Finished"
EntryPosition(e, bar) ==
    IF e.kind = "ProgressBar" THEN bar.pos
    ELSE IF e.kind = "Abandoned" THEN e.position ELSE e.length
EntryLength(e, bar) ==
    IF e.kind = "ProgressBar" THEN bar.len
    ELSE IF e.kind = "Abandoned" THEN e.length ELSE Some(e.length)

\* ---- update_progress_total(true, true)
RECURSIVE TotalDownloaded(_, _, _)
TotalDownloaded(entries, bs, n) ==
    IF n = 0 THEN 0
    ELSE SatAdd(TotalDownloaded(entries, bs, n - 1), EntryPosition(entries[n], bs[n]))

RECURSIVE TotalLength(_, _, _)
TotalLength(entries, bs, n) ==
    IF n = 0 THEN 0
    ELSE IF EntryLength(entries[n], bs[n]) = None THEN TotalLength(entries, bs, n - 1)
    ELSE SatAdd(TotalLength(entries, bs, n - 1), Unwrap(EntryLength(entries[n], bs[n])))

TotalFinished(entries, bs) ==
    Cardinality({i \in 1..Len(entries) : EntryIsFinished(entries[i], bs[i])})

UpdateProgressTotalStale(entries, bs, tot) == tot
UpdateProgressTotal(entries, bs, tot) ==
    [tot EXCEPT !.len = Some(TotalLength(entries, bs, Len(entries))),
                !.pos = TotalDownloaded(entries, bs, Len(entries)),
                !.message = <<TotalFinished(entries, bs), Len(entries)>>]

\* create_total_progress_bar: ProgressBar::new(u64::MAX), "Total 0/1"
CreateTotalProgressBar ==
    [pos |-> 0, len |-> Some(U64Max), status |-> "InProgress", message |-> <<0, 1>>]

\* ---- the closure of update_progress: the new length of the bar
NewLenNoMax(len, downloaded, total_bytes) ==
    IF len = Some(U64Max) /\ total_bytes = None THEN len
    ELSE Some(IF total_bytes = None THEN 0 ELSE Unwrap(total_bytes))
NewLen(len, downloaded, total_bytes) ==
    IF len = Some(U64Max) /\ total_bytes = None THEN len
    ELSE Some(Max(IF total_bytes = None THEN 0 ELSE Unwrap(total_bytes), downloaded))

BarUpdate(bar, downloaded, total_bytes) ==
    [bar EXCEPT !.len = NewLen(bar.len, downloaded, total_bytes), !.pos = downloaded]

\* ---- the length a transfer creates its bar with
CreateLenZero(kind, content_length) ==
    IF kind = "hls" \/ content_length = None THEN 0 ELSE Unwrap(content_length)
CreateLen(kind, content_length) ==
    IF kind = "hls" THEN U64Max
    ELSE IF content_length = None THEN 0 ELSE Unwrap(content_length)

\* ---- the total handed to the last update_progress of a transfer
FinalHintStale(downloaded, hint) == hint
FinalHint(downloaded, hint) == Some(downloaded)

\* ---- where a transfer goes after error_cleanup_progress_bar: return Err
AfterErrorCleanupGoesOn(pc) == pc
AfterErrorCleanup(pc) == "returned"

\* The inputs of a transfer: a simple download of a body of 2 bytes with or
\* without a Content-Length (absent, too small, too large), or an HLS
\* download with one or two segments.
TransferInputs ==
    <<[kind |-> "simple", content_length |-> None, sizes |-> <<2>>],
      [kind |-> "simple", content_length |-> Some(1), sizes |-> <<2>>],
      [kind |-> "simple", content_length |-> Some(3), sizes |-> <<2>>],
      [kind |-> "hls", content_length |-> None, sizes |-> <<1>>],
      [kind |-> "hls", content_length |-> None, sizes |-> <<1, 2>>],
      [kind |-> "hls", content_length |-> None, sizes |-> <<2, 1>>]>>

\* The local state a transfer starts in.
NewTransfer(input) ==
    [input |-> input, pc |-> "new", index |-> 0, segment |-> 1, segRead |-> 0,
     downloaded |-> 0, estimation |-> None, result |-> "none"]

\* A transfer that has returned: its locals are gone.
Returned(tr, result) ==
    [NewTransfer(tr.input) EXCEPT !.pc = "returned", !.index = tr.index,
                                  !.result = result]

Transfers == 1..MaxTransfers

PbFrame == UNCHANGED <<dmVars, grVars, pcVars, hlsVars, selVars, catVars, styleVars, rcVars, rmxVars, dtfVars, retryVars, fmtVars, batchVars, clrVars, coVars>>

InitPB ==
    /\ \E f \in [Transfers -> 1..Len(TransferInputs)] :
          /\ \A t \in Transfers : t > 1 => f[t - 1] <= f[t]
          /\ transfers = [t \in Transfers |-> NewTransfer(TransferInputs[f[t]])]
    /\ sub_progresses = <<>>
    /\ bars = <<>>
    /\ total_progress = None
    /\ max_concurrent = DmIdle.max_concurrent
    /\ senderOpen = DmIdle.senderOpen
    /\ sent = DmIdle.sent
    /\ rx_stream = DmIdle.rx_stream
    /\ streamDone = DmIdle.streamDone
    /\ inflight = DmIdle.inflight
    /\ startCount = DmIdle.startCount
    /\ returned = DmIdle.returned
    /\ warned = DmIdle.warned
    /\ dmPc = DmIdle.dmPc
    /\ tickPc = DmIdle.tickPc
    /\ client = GrIdle.client
    /\ referer = GrIdle.referer
    /\ last_url = GrIdle.last_url
    /\ redirect_count = GrIdle.redirect_count
    /\ grPc = GrIdle.grPc
    /\ grResult = GrIdle.grResult
    /\ response = GrIdle.response
    /\ transport = GrIdle.transport
    /\ wire = GrIdle.wire
    /\ serverRedirects = GrIdle.serverRedirects
    /\ redirectsSeen = GrIdle.redirectsSeen
    /\ seg = PcIdle.seg
    /\ pos = PcIdle.pos
    /\ decryptor = PcIdle.decryptor
    /\ written = PcIdle.written
    /\ segPc = PcIdle.segPc
    /\ segError = PcIdle.segError
    /\ playlist = HlsIdle.playlist
    /\ segPos = HlsIdle.segPos
    /\ segement_index = HlsIdle.segement_index
    /\ current_encryption = HlsIdle.current_encryption
    /\ keyFetches = HlsIdle.keyFetches
    /\ segLog = HlsIdle.segLog
    /\ hlsPc = HlsIdle.hlsPc
    /\ hlsError = HlsIdle.hlsError
    /\ hlsEntry = HlsIdle.hlsEntry
    /\ segRequests = HlsIdle.segRequests
    /\ doc = SelIdle.doc
    /\ served = SelIdle.served
    /\ highest_quality_variant = SelIdle.highest_quality_variant
    /\ media_playlist = SelIdle.media_playlist
    /\ segmentsFetched = SelIdle.segmentsFetched
    /\ selPc = SelIdle.selPc
    /\ selError = SelIdle.selError
    /\ media_segments = CatIdle.media_segments
    /\ segIdx = CatIdle.segIdx
    /\ requested = CatIdle.requested
    /\ chunkPos = CatIdle.chunkPos
    /\ segDecryptor = CatIdle.segDecryptor
    /\ output_stream = CatIdle.output_stream
    /\ downloaded_bytes = CatIdle.downloaded_bytes
    /\ catPc = CatIdle.catPc
    /\ catError = CatIdle.catError
    /\ state = StyleIdle.state
    /\ w = StyleIdle.w
    /\ borrowFlag = RcIdle.borrowFlag
    /\ running = RcIdle.running
    /\ rcTasks = RcIdle.rcTasks
    /\ panicked = RcIdle.panicked
    /\ ffmpeg_path = RmxIdle.ffmpeg_path
    /\ debug = RmxIdle.debug
    /\ rmxSegments = RmxIdle.rmxSegments
    /\ flushed = RmxIdle.flushed
    /\ ffmpeg_cmd = RmxIdle.ffmpeg_cmd
    /\ ffmpeg_result = RmxIdle.ffmpeg_result
    /\ disk = RmxIdle.disk
    /\ rmxLog = RmxIdle.rmxLog
    /\ rmxEntry = RmxIdle.rmxEntry
    /\ rmxPc = RmxIdle.rmxPc
    /\ rmxResult = RmxIdle.rmxResult
    /\ task = DtfIdle.task
    /\ response_url = DtfIdle.response_url
    /\ is_m3u8 = DtfIdle.is_m3u8
    /\ output_path = DtfIdle.output_path
    /\ message = DtfIdle.message
    /\ files = DtfIdle.files
    /\ files0 = DtfIdle.files0
    /\ dtfEntries = DtfIdle.dtfEntries
    /\ dtfPc = DtfIdle.dtfPc
    /\ dtfResult = DtfIdle.dtfResult
    /\ resStatus = RetryIdle.resStatus
    /\ retryable = RetryIdle.retryable
    /\ n_past_retries = RetryIdle.n_past_retries
    /\ handed = RetryIdle.handed
    /\ retryPc = RetryIdle.retryPc
    /\ episode_info = FmtIdle.episode_info
    /\ formatted = FmtIdle.formatted
    /\ episodes_request = BatchIdle.episodes_request
    /\ max_episodes = BatchIdle.max_episodes
    /\ episode = BatchIdle.episode
    /\ got_error = BatchIdle.got_error
    /\ scrapeWarned = BatchIdle.scrapeWarned
    /\ batchChannel = BatchIdle.batchChannel
    /\ transferWarned = BatchIdle.transferWarned
    /\ downloader_result = BatchIdle.downloader_result
    /\ fatal = BatchIdle.fatal
    /\ exit_status = BatchIdle.exit_status
    /\ dropped = ClrIdle.dropped
    /\ totalMark = ClrIdle.totalMark
    /\ totalPercent = ClrIdle.totalPercent
    /\ coTasks = CoIdle.coTasks
    /\ coFiles = CoIdle.coFiles
    /\ ffmpeg_installed = CoIdle.ffmpeg_installed


\* The total a transfer hands to update_progress while it reads.
Hint(tr) == IF tr.input.kind = "simple" THEN tr.input.content_length ELSE tr.estimation

\* Bytes of the current segment (or of the body) not read yet.
Remaining(tr) == tr.input.sizes[tr.segment] - tr.segRead

\* post_prepare_progress_bar: the aggregate bar is created with the first
\* entry, the entry pushed, the aggregate recomputed.
Register(t) ==
    /\ transfers[t].pc = "new"
    /\ LET tr == transfers[t]
           entries == Append(sub_progresses, [kind |-> "ProgressBar"])
           bs == Append(bars, NewBar(CreateLen(tr.input.kind, tr.input.content_length)))
           tot == IF total_progress = None THEN CreateTotalProgressBar
                  ELSE Unwrap(total_progress)
       IN /\ sub_progresses' = entries
          /\ bars' = bs
          /\ total_progress' = Some(UpdateProgressTotal(entries, bs, tot))
          /\ transfers' = [transfers EXCEPT ![t].index = Len(entries), ![t].pc = "read"]
    /\ PbFrame

\* ProgressBarOrResult::Abandoned { position, length }, of the bar's
\* position() and length()
LeftAsProgressBar(bar) == [kind |-> "ProgressBar"]
AbandonedAtZero(bar) == [kind |-> "Abandoned", position |-> 0, length |-> None]
Abandoned(bar) == [kind |-> "Abandoned", position |-> bar.pos, length |-> bar.len]

\* error_cleanup_progress_bar, then return Err.
ErrorCleanup(t, tr) ==
    /\ bars' = [bars EXCEPT ![tr.index] = BarAbandon(@)]
    /\ sub_progresses' =
          [sub_progresses EXCEPT ![tr.index] = Abandoned(bars[tr.index])]
    /\ UNCHANGED total_progress
    /\ transfers' = [transfers EXCEPT
          ![t] = IF AfterErrorCleanup(tr.pc) = "returned" THEN Returned(tr, "err")
                 ELSE tr]

\* clean_up_progress_bar, then return result.
CleanUp(t, tr, result) ==
    LET bs == [bars EXCEPT ![tr.index] = BarFinish(@)]
        entries == [sub_progresses EXCEPT ![tr.index] =
                       [kind |-> "Finished", length |-> bs[tr.index].pos]]
    IN /\ bars' = bs
       /\ sub_progresses' = entries
       /\ total_progress' = Some(UpdateProgressTotal(entries, bs, Unwrap(total_progress)))
       /\ transfers' = [transfers EXCEPT ![t] = Returned(tr, result)]

\* update_progress, the transfer going on as tr.
UpdateProgress(t, tr, downloaded, total_bytes) ==
    LET bs == [bars EXCEPT ![tr.index] = BarUpdate(@, downloaded, total_bytes)]
    IN /\ bars' = bs
       /\ UNCHANGED sub_progresses
       /\ total_progress' =
             Some(UpdateProgressTotal(sub_progresses, bs, Unwrap(total_progress)))
       /\ transfers' = [transfers EXCEPT ![t] = tr]

\* read returns Ok(size): the chunk is counted and written, the progress
\* updated; or the write fails.
PbReadChunk(t, size, writeOk) ==
    /\ transfers[t].pc = "read"
    /\ size \in 1..Remaining(transfers[t])
    /\ LET tr == [transfers[t] EXCEPT !.downloaded = @ + size, !.segRead = @ + size]
       IN IF writeOk THEN UpdateProgress(t, tr, tr.downloaded, Hint(tr))
          ELSE ErrorCleanup(t, tr)
    /\ PbFrame

\* read returns Err; for HLS also: the key or the segment cannot be
\* fetched, or the decryption fails.  Each of them cleans up and returns.
TransferFails(t) ==
    /\ transfers[t].pc = "read"
    /\ ErrorCleanup(t, transfers[t])
    /\ PbFrame

\* read returns Ok(0).  HLS, not the last segment: the size estimate is
\* recomputed from the bytes and the share of the duration downloaded so far
\* (segments of equal duration).  Otherwise the loop is over and the total
\* of the bar is replaced by the downloaded count.
EndOfBody(t) ==
    /\ transfers[t].pc = "read"
    /\ Remaining(transfers[t]) = 0
    /\ LET tr == transfers[t]
           n == Len(tr.input.sizes)
           est == Some((tr.downloaded * n + tr.segment - 1) \div tr.segment)
       IN IF tr.segment < n
          THEN /\ transfers' = [transfers EXCEPT
                     ![t] = [tr EXCEPT !.estimation = est, !.segment = @ + 1,
                                       !.segRead = 0]]
               /\ UNCHANGED <<sub_progresses, bars, total_progress>>
          ELSE UpdateProgress(t, [tr EXCEPT !.pc = "flush"], tr.downloaded,
                              FinalHint(tr.downloaded, Hint(tr)))
    /\ PbFrame

\* clean_up_write: flush and sync_all succeed or fail; either way the bar
\* is cleaned up (an HLS transfer first waits for FFmpeg).
Flush(t, ok) ==
    /\ transfers[t].pc = "flush"
    /\ LET tr == transfers[t]
       IN IF ~ok THEN CleanUp(t, tr, "err")
          ELSE IF tr.input.kind = "simple" THEN CleanUp(t, tr, "ok")
          ELSE /\ transfers' = [transfers EXCEPT ![t].pc = "ffmpeg"]
               /\ UNCHANGED <<sub_progresses, bars, total_progress>>
    /\ PbFrame

\* FFmpeg has run (or could not): the HLS transfer cleans up and returns Ok.
Ffmpeg(t) ==
    /\ transfers[t].pc = "ffmpeg"
    /\ CleanUp(t, transfers[t], "ok")
    /\ PbFrame

NextPB ==
    \/ \E t \in Transfers : Register(t)
    \/ \E t \in Transfers, size \in 1..2, writeOk \in BOOLEAN :
          PbReadChunk(t, size, writeOk)
    \/ \E t \in Transfers : TransferFails(t)
    \/ \E t \in Transfers : EndOfBody(t)
    \/ \E t \in Transfers, ok \in BOOLEAN : Flush(t, ok)
    \/ \E t \in Transfers : Ffmpeg(t)

SpecPB == InitPB /\ [][NextPB]_vars

(***************************************************************************)
(*            custom_progress_style: the percent and bar keys              *)
(***************************************************************************)
MaxBarLen == 8    \* largest bar length tried
BAR_WIDTH == 40

\* ProgressState::fraction, as the pair numerator, denominator: pos / len
\* clamped to [0, 1]; 1 for a length of 0, 0 without a length.
Fraction(st) ==
    IF st.len = None THEN [num |-> 0, den |-> 1]
    ELSE IF Unwrap(st.len) = 0 THEN [num |-> 1, den |-> 1]
    ELSE IF st.pos >= Unwrap(st.len) THEN [num |-> 1, den |-> 1]
    ELSE [num |-> st.pos, den |-> Unwrap(st.len)]

\* (fraction * scale).floor()
Scaled(fr, scale) == (fr.num * scale) \div fr.den

Clamp(x, lo, hi) == IF x < lo THEN lo ELSE IF x > hi THEN hi ELSE x

\* if value == full && !state.is_finished() { value = full - 1 }
HoldBackOff(value, full, finished) == value
HoldBack(value, full, finished) ==
    IF value = full /\ ~finished THEN full - 1 ELSE value

\* The "percent" key.
PercentKey(st) == HoldBack(Clamp(Scaled(Fraction(st), 100), 0, 100), 100, st.finished)

\* The "bar" key: cells filled, in progress and still to do.
BarKey(st) ==
    LET filled == HoldBack(Clamp(Scaled(Fraction(st), BAR_WIDTH), 0, BAR_WIDTH),
                           BAR_WIDTH, st.finished)
        in_progress == IF BAR_WIDTH - filled >= 1 THEN 1 ELSE 0
    IN [filled |-> filled, in_progress |-> in_progress,
        todo |-> BAR_WIDTH - filled - in_progress]

StyleFrame == UNCHANGED <<dmVars, grVars, pcVars, hlsVars, selVars, catVars, pbVars, rcVars, rmxVars, dtfVars, retryVars, fmtVars, batchVars, clrVars, coVars>>

InitStyle ==
    /\ state \in {[pos |-> 0, len |-> Some(l), finished |-> FALSE] : l \in 0..MaxBarLen}
    /\ w = None
    /\ max_concurrent = DmIdle.max_concurrent
    /\ senderOpen = DmIdle.senderOpen
    /\ sent = DmIdle.sent
    /\ rx_stream = DmIdle.rx_stream
    /\ streamDone = DmIdle.streamDone
    /\ inflight = DmIdle.inflight
    /\ startCount = DmIdle.startCount
    /\ returned = DmIdle.returned
    /\ warned = DmIdle.warned
    /\ dmPc = DmIdle.dmPc
    /\ tickPc = DmIdle.tickPc
    /\ client = GrIdle.client
    /\ referer = GrIdle.referer
    /\ last_url = GrIdle.last_url
    /\ redirect_count = GrIdle.redirect_count
    /\ grPc = GrIdle.grPc
    /\ grResult = GrIdle.grResult
    /\ response = GrIdle.response
    /\ transport = GrIdle.transport
    /\ wire = GrIdle.wire
    /\ serverRedirects = GrIdle.serverRedirects
    /\ redirectsSeen = GrIdle.redirectsSeen
    /\ seg = PcIdle.seg
    /\ pos = PcIdle.pos
    /\ decryptor = PcIdle.decryptor
    /\ written = PcIdle.written
    /\ segPc = PcIdle.segPc
    /\ segError = PcIdle.segError
    /\ playlist = HlsIdle.playlist
    /\ segPos = HlsIdle.segPos
    /\ segement_index = HlsIdle.segement_index
    /\ current_encryption = HlsIdle.current_encryption
    /\ keyFetches = HlsIdle.keyFetches
    /\ segLog = HlsIdle.segLog
    /\ hlsPc = HlsIdle.hlsPc
    /\ hlsError = HlsIdle.hlsError
    /\ hlsEntry = HlsIdle.hlsEntry
    /\ segRequests = HlsIdle.segRequests
    /\ doc = SelIdle.doc
    /\ served = SelIdle.served
    /\ highest_quality_variant = SelIdle.highest_quality_variant
    /\ media_playlist = SelIdle.media_playlist
    /\ segmentsFetched = SelIdle.segmentsFetched
    /\ selPc = SelIdle.selPc
    /\ selError = SelIdle.selError
    /\ media_segments = CatIdle.media_segments
    /\ segIdx = CatIdle.segIdx
    /\ requested = CatIdle.requested
    /\ chunkPos = CatIdle.chunkPos
    /\ segDecryptor = CatIdle.segDecryptor
    /\ output_stream = CatIdle.output_stream
    /\ downloaded_bytes = CatIdle.downloaded_bytes
    /\ catPc = CatIdle.catPc
    /\ catError = CatIdle.catError
    /\ transfers = PbIdle.transfers
    /\ sub_progresses = PbIdle.sub_progresses
    /\ bars = PbIdle.bars
    /\ total_progress = PbIdle.total_progress
    /\ borrowFlag = RcIdle.borrowFlag
    /\ running = RcIdle.running
    /\ rcTasks = RcIdle.rcTasks
    /\ panicked = RcIdle.panicked
    /\ ffmpeg_path = RmxIdle.ffmpeg_path
    /\ debug = RmxIdle.debug
    /\ rmxSegments = RmxIdle.rmxSegments
    /\ flushed = RmxIdle.flushed
    /\ ffmpeg_cmd = RmxIdle.ffmpeg_cmd
    /\ ffmpeg_result = RmxIdle.ffmpeg_result
    /\ disk = RmxIdle.disk
    /\ rmxLog = RmxIdle.rmxLog
    /\ rmxEntry = RmxIdle.rmxEntry
    /\ rmxPc = RmxIdle.rmxPc
    /\ rmxResult = RmxIdle.rmxResult
    /\ task = DtfIdle.task
    /\ response_url = DtfIdle.response_url
    /\ is_m3u8 = DtfIdle.is_m3u8
    /\ output_path = DtfIdle.output_path
    /\ message = DtfIdle.message
    /\ files = DtfIdle.files
    /\ files0 = DtfIdle.files0
    /\ dtfEntries = DtfIdle.dtfEntries
    /\ dtfPc = DtfIdle.dtfPc
    /\ dtfResult = DtfIdle.dtfResult
    /\ resStatus = RetryIdle.resStatus
    /\ retryable = RetryIdle.retryable
    /\ n_past_retries = RetryIdle.n_past_retries
    /\ handed = RetryIdle.handed
    /\ retryPc = RetryIdle.retryPc
    /\ episode_info = FmtIdle.episode_info
    /\ formatted = FmtIdle.formatted
    /\ episodes_request = BatchIdle.episodes_request
    /\ max_episodes = BatchIdle.max_episodes
    /\ episode = BatchIdle.episode
    /\ got_error = BatchIdle.got_error
    /\ scrapeWarned = BatchIdle.scrapeWarned
    /\ batchChannel = BatchIdle.batchChannel
    /\ transferWarned = BatchIdle.transferWarned
    /\ downloader_result = BatchIdle.downloader_result
    /\ fatal = BatchIdle.fatal
    /\ exit_status = BatchIdle.exit_status
    /\ dropped = ClrIdle.dropped
    /\ totalMark = ClrIdle.totalMark
    /\ totalPercent = ClrIdle.totalPercent
    /\ coTasks = CoIdle.coTasks
    /\ coFiles = CoIdle.coFiles
    /\ ffmpeg_installed = CoIdle.ffmpeg_installed

\* The bar is drawn: the keys write for the current state.
DrawKeys ==
    /\ w' = Some([of |-> state, percent |-> PercentKey(state), bar |-> BarKey(state)])
    /\ StyleFrame
    /\ UNCHANGED state

\* update_progress moves the position (the length stays at least as large).
SetPosition(p) ==
    /\ ~state.finished
    /\ p <= Unwrap(state.len)
    /\ state' = [state EXCEPT !.pos = p]
    /\ StyleFrame
    /\ UNCHANGED w

\* update_progress changes the length.
SetLength(l) ==
    /\ ~state.finished
    /\ l >= state.pos
    /\ state' = [state EXCEPT !.len = Some(l)]
    /\ StyleFrame
    /\ UNCHANGED w

\* ProgressBar::finish
FinishBar ==
    /\ ~state.finished
    /\ state' = [state EXCEPT !.finished = TRUE, !.pos = Unwrap(state.len)]
    /\ StyleFrame
    /\ UNCHANGED w

\* ProgressBar::abandon
AbandonBar ==
    /\ ~state.finished
    /\ state' = [state EXCEPT !.finished = TRUE]
    /\ StyleFrame
    /\ UNCHANGED w

NextStyle ==
    \/ DrawKeys
    \/ \E p \in 0..MaxBarLen : SetPosition(p)
    \/ \E l \in 0..MaxBarLen : SetLength(l)
    \/ FinishBar
    \/ AbandonBar

SpecStyle == InitStyle /\ [][NextStyle]_vars

(***************************************************************************)
(*   Downloader: the RefCells of the registry, statement by statement      *)
(***************************************************************************)
(* The transfers and Downloader::tick are futures polled by one thread.    *)
(* A future runs from one await to the next without interruption; what     *)
(* it runs in between is listed here statement by statement, with the      *)
(* borrow() and borrow_mut() calls on the two RefCells and the drops of    *)
(* their guards.                                                           *)
MaxRcTransfers == 2   \* transfers polled next to the tick task
RcChunks       == 1   \* chunks a transfer reads

Op(o, c) == [op |-> o, cell |-> c]

\* update_progress_total(true, true)
update_progress_total ==
    <<Op("borrow", "sub_progresses"), Op("sum", "sub_progresses"),
      Op("drop", "sub_progresses"),
      Op("borrow", "total_progress"), Op("update", "total_progress"),
      Op("drop", "total_progress")>>

\* create_progress_bar_unknown_bytes: the bar, then post_prepare_progress_bar
post_prepare_progress_bar ==
    <<Op("borrow_mut", "total_progress"), Op("insert", "total_progress"),
      Op("drop", "total_progress"),
      Op("borrow_mut", "sub_progresses"), Op("push", "sub_progresses"),
      Op("drop", "sub_progresses"), Op("tick", "bar")>>
    \o update_progress_total

update_progress == <<Op("update", "bar")>> \o update_progress_total

clean_up_progress_bar ==
    <<Op("finish", "bar"), Op("position", "bar"),
      Op("borrow_mut", "sub_progresses"), Op("Finished", "sub_progresses"),
      Op("drop", "sub_progresses")>>
    \o update_progress_total

error_cleanup_progress_bar ==
    <<Op("abandon", "bar"), Op("position", "bar"),
      Op("borrow_mut", "sub_progresses"), Op("Abandoned", "sub_progresses"),
      Op("drop", "sub_progresses")>>

\* One round of the loop of Downloader::tick, up to the sleep.
tick ==
    <<Op("borrow", "sub_progresses"), Op("tick", "sub_progresses"),
      Op("drop", "sub_progresses"),
      Op("borrow", "total_progress"), Op("tick", "total_progress"),
      Op("drop", "total_progress")>>

\* ---- core::cell::RefCell
\* borrow() panics while a mutable borrow is out, borrow_mut() while any is.
BorrowPanics(op, flag) ==
    \/ op = "borrow" /\ flag < 0
    \/ op = "borrow_mut" /\ flag # 0
Borrowed(op, flag) == IF op = "borrow" THEN flag + 1 ELSE 0 - 1
Dropped(flag) == IF flag < 0 THEN 0 ELSE flag - 1

\* A future is at an await when the statements up to it have run: none of
\* the functions above awaits.
AtAwaitHoldingBorrow(code) == code = <<>> \/ Head(code).op = "drop"
AtAwait(code) == code = <<>>

TickTask == 0
RcTransfers == 1..MaxRcTransfers
RcTasks == {TickTask} \cup RcTransfers

NewRcTask(t) ==
    [pc |-> IF t = TickTask THEN "tick" ELSE "new", code |-> <<>>, index |-> 0,
     downloaded |-> 0, position |-> 0, length |-> None,
     sums |-> [pos |-> 0, len |-> None, message |-> <<0, 0>>]]

RcFrame == UNCHANGED <<dmVars, grVars, pcVars, hlsVars, selVars, catVars, styleVars, transfers, rmxVars, dtfVars, retryVars, fmtVars, batchVars, clrVars, coVars>>

InitRC ==
    /\ borrowFlag = [sub_progresses |-> 0, total_progress |-> 0]
    /\ running = None
    /\ rcTasks = [t \in RcTasks |-> NewRcTask(t)]
    /\ panicked = FALSE
    /\ sub_progresses = <<>>
    /\ bars = <<>>
    /\ total_progress = None
    /\ transfers = PbIdle.transfers
    /\ max_concurrent = DmIdle.max_concurrent
    /\ senderOpen = DmIdle.senderOpen
    /\ sent = DmIdle.sent
    /\ rx_stream = DmIdle.rx_stream
    /\ streamDone = DmIdle.streamDone
    /\ inflight = DmIdle.inflight
    /\ startCount = DmIdle.startCount
    /\ returned = DmIdle.returned
    /\ warned = DmIdle.warned
    /\ dmPc = DmIdle.dmPc
    /\ tickPc = DmIdle.tickPc
    /\ client = GrIdle.client
    /\ referer = GrIdle.referer
    /\ last_url = GrIdle.last_url
    /\ redirect_count = GrIdle.redirect_count
    /\ grPc = GrIdle.grPc
    /\ grResult = GrIdle.grResult
    /\ response = GrIdle.response
    /\ transport = GrIdle.transport
    /\ wire = GrIdle.wire
    /\ serverRedirects = GrIdle.serverRedirects
    /\ redirectsSeen = GrIdle.redirectsSeen
    /\ seg = PcIdle.seg
    /\ pos = PcIdle.pos
    /\ decryptor = PcIdle.decryptor
    /\ written = PcIdle.written
    /\ segPc = PcIdle.segPc
    /\ segError = PcIdle.segError
    /\ playlist = HlsIdle.playlist
    /\ segPos = HlsIdle.segPos
    /\ segement_index = HlsIdle.segement_index
    /\ current_encryption = HlsIdle.current_encryption
    /\ keyFetches = HlsIdle.keyFetches
    /\ segLog = HlsIdle.segLog
    /\ hlsPc = HlsIdle.hlsPc
    /\ hlsError = HlsIdle.hlsError
    /\ hlsEntry = HlsIdle.hlsEntry
    /\ segRequests = HlsIdle.segRequests
    /\ doc = SelIdle.doc
    /\ served = SelIdle.served
    /\ highest_quality_variant = SelIdle.highest_quality_variant
    /\ media_playlist = SelIdle.media_playlist
    /\ segmentsFetched = SelIdle.segmentsFetched
    /\ selPc = SelIdle.selPc
    /\ selError = SelIdle.selError
    /\ media_segments = CatIdle.media_segments
    /\ segIdx = CatIdle.segIdx
    /\ requested = CatIdle.requested
    /\ chunkPos = CatIdle.chunkPos
    /\ segDecryptor = CatIdle.segDecryptor
    /\ output_stream = CatIdle.output_stream
    /\ downloaded_bytes = CatIdle.downloaded_bytes
    /\ catPc = CatIdle.catPc
    /\ catError = CatIdle.catError
    /\ state = StyleIdle.state
    /\ w = StyleIdle.w
    /\ ffmpeg_path = RmxIdle.ffmpeg_path
    /\ debug = RmxIdle.debug
    /\ rmxSegments = RmxIdle.rmxSegments
    /\ flushed = RmxIdle.flushed
    /\ ffmpeg_cmd = RmxIdle.ffmpeg_cmd
    /\ ffmpeg_result = RmxIdle.ffmpeg_result
    /\ disk = RmxIdle.disk
    /\ rmxLog = RmxIdle.rmxLog
    /\ rmxEntry = RmxIdle.rmxEntry
    /\ rmxPc = RmxIdle.rmxPc
    /\ rmxResult = RmxIdle.rmxResult
    /\ task = DtfIdle.task
    /\ response_url = DtfIdle.response_url
    /\ is_m3u8 = DtfIdle.is_m3u8
    /\ output_path = DtfIdle.output_path
    /\ message = DtfIdle.message
    /\ files = DtfIdle.files
    /\ files0 = DtfIdle.files0
    /\ dtfEntries = DtfIdle.dtfEntries
    /\ dtfPc = DtfIdle.dtfPc
    /\ dtfResult = DtfIdle.dtfResult
    /\ resStatus = RetryIdle.resStatus
    /\ retryable = RetryIdle.retryable
    /\ n_past_retries = RetryIdle.n_past_retries
    /\ handed = RetryIdle.handed
    /\ retryPc = RetryIdle.retryPc
    /\ episode_info = FmtIdle.episode_info
    /\ formatted = FmtIdle.formatted
    /\ episodes_request = BatchIdle.episodes_request
    /\ max_episodes = BatchIdle.max_episodes
    /\ episode = BatchIdle.episode
    /\ got_error = BatchIdle.got_error
    /\ scrapeWarned = BatchIdle.scrapeWarned
    /\ batchChannel = BatchIdle.batchChannel
    /\ transferWarned = BatchIdle.transferWarned
    /\ downloader_result = BatchIdle.downloader_result
    /\ fatal = BatchIdle.fatal
    /\ exit_status = BatchIdle.exit_status
    /\ dropped = ClrIdle.dropped
    /\ totalMark = ClrIdle.totalMark
    /\ totalPercent = ClrIdle.totalPercent
    /\ coTasks = CoIdle.coTasks
    /\ coFiles = CoIdle.coFiles
    /\ ffmpeg_installed = CoIdle.ffmpeg_installed

\* The executor polls a future that is at an await: the future goes on with
\* the statements up to its next await.
\*   what = "go":   the transfer creates its bar; it reads a chunk and calls
\*                  update_progress; at the end of the body it calls
\*                  update_progress with the final size, then clean_up_write;
\*                  after clean_up_write it cleans up.  tick: one round.
\*   what = "fail": the read or the write fails: error_cleanup_progress_bar.
Poll(t, what) ==
    /\ ~panicked
    /\ running = None
    /\ rcTasks[t].code = <<>>
    /\ LET tk == rcTasks[t]
           next ==
              IF tk.pc = "tick" /\ what = "go" THEN [tk EXCEPT !.code = tick]
              ELSE IF tk.pc = "new" /\ what = "go"
                   THEN [tk EXCEPT !.code = post_prepare_progress_bar, !.pc = "read"]
              ELSE IF tk.pc = "read" /\ what = "go" /\ tk.downloaded < RcChunks
                   THEN [tk EXCEPT !.code = update_progress, !.downloaded = @ + 1]
              ELSE IF tk.pc = "read" /\ what = "go"
                   THEN [tk EXCEPT !.code = update_progress, !.pc = "flush"]
              ELSE IF tk.pc = "read" /\ what = "fail"
                   THEN [tk EXCEPT !.code = error_cleanup_progress_bar,
                                   !.pc = "returned"]
              ELSE IF tk.pc = "flush" /\ what = "go"
                   THEN [tk EXCEPT !.code = clean_up_progress_bar, !.pc = "returned"]
              ELSE tk
       IN /\ next # tk
          /\ rcTasks' = [rcTasks EXCEPT ![t] = next]
          /\ running' = Some(t)
    /\ UNCHANGED <<borrowFlag, panicked, sub_progresses, bars, total_progress>>
    /\ RcFrame

\* The future being polled takes or releases a borrow.
RefCellStep(t) ==
    /\ ~panicked
    /\ running \in {None, Some(t)}
    /\ rcTasks[t].code # <<>>
    /\ Head(rcTasks[t].code).op \in {"borrow", "borrow_mut", "drop"}
    /\ LET o == Head(rcTasks[t].code)
           rest == Tail(rcTasks[t].code)
       IN IF BorrowPanics(o.op, borrowFlag[o.cell])
          THEN /\ panicked' = TRUE
               /\ UNCHANGED <<borrowFlag, running, rcTasks>>
          ELSE /\ borrowFlag' =
                     [borrowFlag EXCEPT ![o.cell] =
                         IF o.op = "drop" THEN Dropped(@) ELSE Borrowed(o.op, @)]
               /\ rcTasks' = [rcTasks EXCEPT ![t].code = rest]
               /\ running' = IF AtAwait(rest) THEN None ELSE Some(t)
               /\ UNCHANGED panicked
    /\ UNCHANGED <<sub_progresses, bars, total_progress>>
    /\ RcFrame

\* The future being polled runs a statement on its bar, on the entry list
\* or on the aggregate bar.
Statement(t) ==
    /\ ~panicked
    /\ running \in {None, Some(t)}
    /\ rcTasks[t].code # <<>>
    /\ Head(rcTasks[t].code).op \notin {"borrow", "borrow_mut", "drop"}
    /\ LET o == Head(rcTasks[t].code)
           rest == Tail(rcTasks[t].code)
           tk == [rcTasks[t] EXCEPT !.code = rest]
           i == tk.index
       IN /\ running' = IF AtAwait(rest) THEN None ELSE Some(t)
          /\ CASE o = Op("insert", "total_progress") ->
                    /\ total_progress' = IF total_progress = None
                                         THEN Some(CreateTotalProgressBar)
                                         ELSE total_progress
                    /\ rcTasks' = [rcTasks EXCEPT ![t] = tk]
                    /\ UNCHANGED <<sub_progresses, bars>>
               [] o = Op("push", "sub_progresses") ->
                    /\ sub_progresses' = Append(sub_progresses, [kind |-> "ProgressBar"])
                    /\ bars' = Append(bars, NewBar(0))
                    /\ rcTasks' = [rcTasks EXCEPT
                          ![t] = [tk EXCEPT !.index = Len(sub_progresses) + 1]]
                    /\ UNCHANGED total_progress
               [] o = Op("update", "bar") ->
                    /\ bars' = [bars EXCEPT ![i] = BarUpdate(@, tk.downloaded,
                                   IF tk.pc = "flush" THEN Some(tk.downloaded) ELSE None)]
                    /\ rcTasks' = [rcTasks EXCEPT ![t] = tk]
                    /\ UNCHANGED <<sub_progresses, total_progress>>
               [] o = Op("finish", "bar") ->
                    /\ bars' = [bars EXCEPT ![i] = BarFinish(@)]
                    /\ rcTasks' = [rcTasks EXCEPT ![t] = tk]
                    /\ UNCHANGED <<sub_progresses, total_progress>>
               [] o = Op("abandon", "bar") ->
                    /\ bars' = [bars EXCEPT ![i] = BarAbandon(@)]
                    /\ rcTasks' = [rcTasks EXCEPT ![t] = tk]
                    /\ UNCHANGED <<sub_progresses, total_progress>>
               [] o = Op("position", "bar") ->
                    /\ rcTasks' = [rcTasks EXCEPT
                          ![t] = [tk EXCEPT !.position = bars[i].pos,
                                            !.length = bars[i].len]]
                    /\ UNCHANGED <<sub_progresses, bars, total_progress>>
               [] o = Op("Finished", "sub_progresses") ->
                    /\ sub_progresses' = [sub_progresses EXCEPT
                          ![i] = [kind |-> "Finished", length |-> tk.position]]
                    /\ rcTasks' = [rcTasks EXCEPT ![t] = tk]
                    /\ UNCHANGED <<bars, total_progress>>
               [] o = Op("Abandoned", "sub_progresses") ->
                    /\ sub_progresses' = [sub_progresses EXCEPT
                          ![i] = [kind |-> "Abandoned", position |-> tk.position,
                                  length |-> tk.length]]
                    /\ rcTasks' = [rcTasks EXCEPT ![t] = tk]
                    /\ UNCHANGED <<bars, total_progress>>
               [] o = Op("sum", "sub_progresses") ->
                    /\ rcTasks' = [rcTasks EXCEPT
                          ![t] = [tk EXCEPT !.sums =
                             [pos |-> TotalDownloaded(sub_progresses, bars,
                                                      Len(sub_progresses)),
                              len |-> Some(TotalLength(sub_progresses, bars,
                                                       Len(sub_progresses))),
                              message |-> <<TotalFinished(sub_progresses, bars),
                                            Len(sub_progresses)>>]]]
                    /\ UNCHANGED <<sub_progresses, bars, total_progress>>
               [] o = Op("update", "total_progress") ->
                    /\ total_progress' =
                          Some([Unwrap(total_progress) EXCEPT
                                   !.len = tk.sums.len, !.pos = tk.sums.pos,
                                   !.message = tk.sums.message])
                    /\ rcTasks' = [rcTasks EXCEPT ![t] = tk]
                    /\ UNCHANGED <<sub_progresses, bars>>
               [] OTHER ->    \* tick: a redraw
                    /\ rcTasks' = [rcTasks EXCEPT ![t] = tk]
                    /\ UNCHANGED <<sub_progresses, bars, total_progress>>
    /\ UNCHANGED <<borrowFlag, panicked>>
    /\ RcFrame

NextRC ==
    \/ \E t \in RcTasks, what \in {"go", "fail"} : Poll(t, what)
    \/ \E t \in RcTasks : RefCellStep(t)
    \/ \E t \in RcTasks : Statement(t)

SpecRC == InitRC /\ [][NextRC]_vars

(***************************************************************************)
(*     m3u8_download: the end of the transfer (clean_up_write, FFmpeg)     *)
(***************************************************************************)
MaxRmxSegments == 3   \* segments of the media playlist

\* The ways a spawned FFmpeg ends: child.wait() fails, or it exits with a
\* code, or a signal terminates it (ExitStatus::code() is None).
WaitResults ==
    {[wait |-> "Err", code |-> None], [wait |-> "Ok", code |-> Some(0)],
     [wait |-> "Ok", code |-> Some(1)], [wait |-> "Ok", code |-> None]}

\* The arm of the match on ffmpeg_result.code() that removes the raw file:
\* the catch-all after "Some(code) if code != 0" and "None".
ExitedAtAll(res) == res.wait = "Ok"
ExitedWithSuccess(res) == res.wait = "Ok" /\ res.code = Some(0)

\* What the FFmpeg arms log.
WaitLog(res) ==
    IF res.wait = "Err" THEN {"FFmpeg was not running"}
    ELSE IF res.code = None THEN {"FFmpeg failed due to signal termination"}
    ELSE IF res.code # Some(0) THEN {"FFmpeg failed with exit code"}
    ELSE {}

\* remove_file_ignore_not_exists: NotFound is not an error.
RemoveResults == {"Ok", "NotFound", "PermissionDenied"}
remove_file_ignore_not_exists(r) == IF r \in {"Ok", "NotFound"} THEN "Ok" ELSE "Err"

\* Where m3u8_download goes after clean_up_write.
AfterCleanUpWriteGoesOn(outcome) == "remux"
AfterCleanUpWrite(outcome) == IF outcome = "Ok" THEN "remux" ELSE "returned"

\* What m3u8_download returns after the FFmpeg step, whatever it logged.
RemuxReturnStrict(log) == IF log = {} THEN "ok" ELSE "err"
RemuxReturn(log) == "ok"

RmxFrame == UNCHANGED <<dmVars, grVars, pcVars, hlsVars, selVars, catVars, pbVars, styleVars, rcVars, dtfVars, retryVars, fmtVars, batchVars, clrVars, coVars>>

InitRmx ==
    /\ ffmpeg_path \in {None, Some("ffmpeg")}
    /\ debug \in BOOLEAN
    /\ \E n \in 1..MaxRmxSegments : rmxSegments = [count |-> n, written |-> 0]
    /\ flushed = FALSE
    /\ ffmpeg_cmd = None
    /\ ffmpeg_result = None
    /\ disk = {"ts"}
    /\ rmxLog = {}
    /\ rmxEntry = "ProgressBar"
    /\ rmxPc = "segments"
    /\ rmxResult = "none"
    /\ max_concurrent = DmIdle.max_concurrent
    /\ senderOpen = DmIdle.senderOpen
    /\ sent = DmIdle.sent
    /\ rx_stream = DmIdle.rx_stream
    /\ streamDone = DmIdle.streamDone
    /\ inflight = DmIdle.inflight
    /\ startCount = DmIdle.startCount
    /\ returned = DmIdle.returned
    /\ warned = DmIdle.warned
    /\ dmPc = DmIdle.dmPc
    /\ tickPc = DmIdle.tickPc
    /\ client = GrIdle.client
    /\ referer = GrIdle.referer
    /\ last_url = GrIdle.last_url
    /\ redirect_count = GrIdle.redirect_count
    /\ grPc = GrIdle.grPc
    /\ grResult = GrIdle.grResult
    /\ response = GrIdle.response
    /\ transport = GrIdle.transport
    /\ wire = GrIdle.wire
    /\ serverRedirects = GrIdle.serverRedirects
    /\ redirectsSeen = GrIdle.redirectsSeen
    /\ seg = PcIdle.seg
    /\ pos = PcIdle.pos
    /\ decryptor = PcIdle.decryptor
    /\ written = PcIdle.written
    /\ segPc = PcIdle.segPc
    /\ segError = PcIdle.segError
    /\ playlist = HlsIdle.playlist
    /\ segPos = HlsIdle.segPos
    /\ segement_index = HlsIdle.segement_index
    /\ current_encryption = HlsIdle.current_encryption
    /\ keyFetches = HlsIdle.keyFetches
    /\ segLog = HlsIdle.segLog
    /\ hlsPc = HlsIdle.hlsPc
    /\ hlsError = HlsIdle.hlsError
    /\ hlsEntry = HlsIdle.hlsEntry
    /\ segRequests = HlsIdle.segRequests
    /\ doc = SelIdle.doc
    /\ served = SelIdle.served
    /\ highest_quality_variant = SelIdle.highest_quality_variant
    /\ media_playlist = SelIdle.media_playlist
    /\ segmentsFetched = SelIdle.segmentsFetched
    /\ selPc = SelIdle.selPc
    /\ selError = SelIdle.selError
    /\ media_segments = CatIdle.media_segments
    /\ segIdx = CatIdle.segIdx
    /\ requested = CatIdle.requested
    /\ chunkPos = CatIdle.chunkPos
    /\ segDecryptor = CatIdle.segDecryptor
    /\ output_stream = CatIdle.output_stream
    /\ downloaded_bytes = CatIdle.downloaded_bytes
    /\ catPc = CatIdle.catPc
    /\ catError = CatIdle.catError
    /\ transfers = PbIdle.transfers
    /\ sub_progresses = PbIdle.sub_progresses
    /\ bars = PbIdle.bars
    /\ total_progress = PbIdle.total_progress
    /\ state = StyleIdle.state
    /\ w = StyleIdle.w
    /\ borrowFlag = RcIdle.borrowFlag
    /\ running = RcIdle.running
    /\ rcTasks = RcIdle.rcTasks
    /\ panicked = RcIdle.panicked
    /\ task = DtfIdle.task
    /\ response_url = DtfIdle.response_url
    /\ is_m3u8 = DtfIdle.is_m3u8
    /\ output_path = DtfIdle.output_path
    /\ message = DtfIdle.message
    /\ files = DtfIdle.files
    /\ files0 = DtfIdle.files0
    /\ dtfEntries = DtfIdle.dtfEntries
    /\ dtfPc = DtfIdle.dtfPc
    /\ dtfResult = DtfIdle.dtfResult
    /\ resStatus = RetryIdle.resStatus
    /\ retryable = RetryIdle.retryable
    /\ n_past_retries = RetryIdle.n_past_retries
    /\ handed = RetryIdle.handed
    /\ retryPc = RetryIdle.retryPc
    /\ episode_info = FmtIdle.episode_info
    /\ formatted = FmtIdle.formatted
    /\ episodes_request = BatchIdle.episodes_request
    /\ max_episodes = BatchIdle.max_episodes
    /\ episode = BatchIdle.episode
    /\ got_error = BatchIdle.got_error
    /\ scrapeWarned = BatchIdle.scrapeWarned
    /\ batchChannel = BatchIdle.batchChannel
    /\ transferWarned = BatchIdle.transferWarned
    /\ downloader_result = BatchIdle.downloader_result
    /\ fatal = BatchIdle.fatal
    /\ exit_status = BatchIdle.exit_status
    /\ dropped = ClrIdle.dropped
    /\ totalMark = ClrIdle.totalMark
    /\ totalPercent = ClrIdle.totalPercent
    /\ coTasks = CoIdle.coTasks
    /\ coFiles = CoIdle.coFiles
    /\ ffmpeg_installed = CoIdle.ffmpeg_installed

\* clean_up_progress_bar and the return of m3u8_download.
RmxReturn(entry, result) ==
    /\ rmxEntry' = entry
    /\ rmxResult' = result
    /\ rmxPc' = "returned"

\* One round of the segment loop: the segment is fetched, decrypted and
\* written; or one of its steps fails (error_cleanup_progress_bar, Err).
RmxSegment(ok) ==
    /\ rmxPc = "segments"
    /\ IF ok
       THEN /\ rmxSegments' = [rmxSegments EXCEPT !.written = @ + 1]
            /\ rmxPc' = IF rmxSegments.written + 1 = rmxSegments.count
                        THEN "flush" ELSE "segments"
            /\ UNCHANGED <<rmxEntry, rmxResult>>
       ELSE /\ RmxReturn("Abandoned", "err")
            /\ UNCHANGED rmxSegments
    /\ UNCHANGED <<ffmpeg_path, debug, flushed, ffmpeg_cmd, ffmpeg_result, disk, rmxLog>>
    /\ RmxFrame

\* clean_up_write: flush, then sync_all; a failure of either cleans up the
\* bar and returns the error.
RmxCleanUpWrite(outcome) ==
    /\ rmxPc = "flush"
    /\ flushed' = (outcome = "Ok")
    /\ IF outcome = "Ok" THEN UNCHANGED <<rmxEntry, rmxResult>>
       ELSE /\ rmxEntry' = "Finished"
            /\ rmxResult' = "err"
    /\ rmxPc' = AfterCleanUpWrite(outcome)
    /\ UNCHANGED <<ffmpeg_path, debug, rmxSegments, ffmpeg_cmd, ffmpeg_result, disk, rmxLog>>
    /\ RmxFrame

\* No ffmpeg_path: an info message, clean up, Ok.
NoFfmpeg ==
    /\ rmxPc = "remux"
    /\ ffmpeg_path = None
    /\ rmxLog' = rmxLog \cup {"FFmpeg not being installed"}
    /\ RmxReturn("Finished", RemuxReturn(rmxLog'))
    /\ UNCHANGED <<ffmpeg_path, debug, rmxSegments, flushed, ffmpeg_cmd, ffmpeg_result, disk>>
    /\ RmxFrame

\* The command is built and spawned; a spawn failure is logged.
Spawn(ok) ==
    /\ rmxPc = "remux"
    /\ ffmpeg_path # None
    /\ ffmpeg_cmd' =
          Some([program |-> Unwrap(ffmpeg_path),
                args |-> (IF debug THEN <<>> ELSE <<"-nostdin">>)
                         \o <<"-i", "ts", "-c", "copy", "mp4">>,
                written |-> rmxSegments.written, flushed |-> flushed,
                result |-> rmxResult])
    /\ IF ok
       THEN /\ rmxPc' = "wait"
            /\ UNCHANGED <<rmxLog, rmxEntry, rmxResult>>
       ELSE /\ rmxLog' = rmxLog \cup {"Failed to start FFmpeg"}
            /\ RmxReturn("Finished", RemuxReturn(rmxLog'))
    /\ UNCHANGED <<ffmpeg_path, debug, rmxSegments, flushed, ffmpeg_result, disk>>
    /\ RmxFrame

\* child.wait() returns.  With exit code 0 the MP4 file is there and the raw
\* file is about to be removed; otherwise FFmpeg may or may not have left an
\* MP4 file, the failure is logged and the transfer cleans up and returns.
Wait(res, leftMp4) ==
    /\ rmxPc = "wait"
    /\ ffmpeg_result' = Some(res)
    /\ disk' = IF ExitedWithSuccess(res) \/ leftMp4 THEN disk \cup {"mp4"} ELSE disk
    /\ rmxLog' = rmxLog \cup WaitLog(res)
    /\ IF ExitedWithSuccess(res)
       THEN /\ rmxPc' = "remove"
            /\ UNCHANGED <<rmxEntry, rmxResult>>
       ELSE RmxReturn("Finished", RemuxReturn(rmxLog'))
    /\ UNCHANGED <<ffmpeg_path, debug, rmxSegments, flushed, ffmpeg_cmd>>
    /\ RmxFrame

\* remove_file_ignore_not_exists(&target_path): a failure is logged.
RemoveRaw(r) ==
    /\ rmxPc = "remove"
    /\ r = "NotFound" <=> "ts" \notin disk
    /\ disk' = IF r = "Ok" THEN disk \ {"ts"} ELSE disk
    /\ rmxLog' = IF remove_file_ignore_not_exists(r) = "Ok" THEN rmxLog
                 ELSE rmxLog \cup {"Failed to delete temporary input file for FFmpeg"}
    /\ RmxReturn("Finished", RemuxReturn(rmxLog'))
    /\ UNCHANGED <<ffmpeg_path, debug, rmxSegments, flushed, ffmpeg_cmd, ffmpeg_result>>
    /\ RmxFrame

NextRmx ==
    \/ \E ok \in BOOLEAN : RmxSegment(ok)
    \/ \E outcome \in {"Ok", "flush fails", "sync_all fails"} : RmxCleanUpWrite(outcome)
    \/ NoFfmpeg
    \/ \E ok \in BOOLEAN : Spawn(ok)
    \/ \E res \in WaitResults, leftMp4 \in BOOLEAN : Wait(res, leftMp4)
    \/ \E r \in RemoveResults : RemoveRaw(r)

SpecRmx == InitRmx /\ [][NextRmx]_vars

(***************************************************************************)
(*   Downloader::download_to_file: HLS or simple, and the target file      *)
(***************************************************************************)
(* Strings are sequences of characters.                                    *)
DotM3u8 == <<".", "m", "3", "u", "8">>
DotM3u  == <<".", "m", "3", "u">>
DotTs   == <<".", "t", "s">>
DotMp4  == <<".", "m", "p", "4">>

\* u8::to_ascii_lowercase, for the letters that occur
LowerOf(c) ==
    CASE c = "A" -> "a" [] c = "M" -> "m" [] c = "U" -> "u" [] c = "X" -> "x"
      [] OTHER -> c

\* str::to_ascii_lowercase
AsIs(s) == s
to_ascii_lowercase(s) == [i \in 1..Len(s) |-> LowerOf(s[i])]

\* str::ends_with
ends_with(s, suffix) ==
    /\ Len(s) >= Len(suffix)
    /\ SubSeq(s, Len(s) - Len(suffix) + 1, Len(s)) = suffix

\* is_m3u8_url, given the last path segment of the URL
is_m3u8_url(last) ==
    LET lower == to_ascii_lowercase(last)
    IN \/ ends_with(lower, DotM3u8) /\ Len(lower) # Len(DotM3u8)
       \/ ends_with(lower, DotM3u) /\ Len(lower) # Len(DotM3u)

\* Path::file_stem of a file name: the part before the last dot, the whole
\* name if it has no dot or only a leading one.
file_stem(name) ==
    LET dots == {i \in 2..Len(name) : name[i] = "."}
    IN IF dots = {} THEN name
       ELSE SubSeq(name, 1, (CHOOSE i \in dots : \A j \in dots : j <= i) - 1)

\* Path::with_extension("mp4") on a path
with_extension_mp4(path) ==
    IF path.file_name = None THEN path
    ELSE [path EXCEPT !.file_name = Some(file_stem(Unwrap(@)) \o DotMp4)]

\* The output path after the extension rule.
OutputPath(tk, m3u8) ==
    IF ~tk.output_path_has_extension
    THEN IF tk.output_path.parent # None /\ tk.output_path.file_name # None
         THEN [tk.output_path EXCEPT
                  !.file_name = Some(Unwrap(@) \o (IF m3u8 THEN DotTs ELSE DotMp4))]
         ELSE tk.output_path
    ELSE tk.output_path

\* OpenOptions: create(true).truncate(true) opens whatever is there,
\* create_new(true) fails with AlreadyExists if the file exists.
AlreadyExistsNever(overwrite, exists) == FALSE
AlreadyExists(overwrite, exists) == ~overwrite /\ exists

\* Url::parse of the task's URL: an empty string is no URL.
url_parse(text) == IF text = <<>> THEN None ELSE Some(text)

\* `Url::parse(&task.url).context("failed to parse URL")?`: where the
\* function is after the error
AfterParseErrorGoesOn(pc) == "get_response"
AfterParseError(pc) == "returned"

\* What an error of simple_download or m3u8_download leaves of the files:
\* download_to_file hands the error on, nothing removes the target.
ErrorRemovesTarget(fs, name) == [n \in DOMAIN fs \ {name} |-> fs[n]]
ErrorLeaves(fs, name) == fs

\* Last path segments of URLs.
UrlSegments ==
    {<<>>, DotM3u8, DotM3u, <<".", "M", "3", "U">>,
     <<"a">> \o DotM3u8, <<"a">> \o DotM3u,
     <<"A", ".", "M", "3", "U", "8">>, <<"a", ".", "M", "3", "u">>,
     <<"a">> \o DotMp4, <<"a", "m", "3", "u", "8">>,
     <<"a">> \o DotM3u8 \o <<"x">>, <<"a">> \o DotM3u8 \o DotTs,
     DotM3u8 \o DotM3u, <<"a", ".", "m", "3">>}

\* Output paths of a task: with a file name (with or without an extension)
\* or without one (a path such as ".." or "/").
OutputPaths ==
    {[parent |-> Some("dir"), file_name |-> Some(<<"e">>)],
     [parent |-> Some("dir"), file_name |-> Some(<<"e">> \o DotMp4)],
     [parent |-> Some("dir"), file_name |-> None]}

DtfTasks ==
    {[url |-> u, output_path |-> p, output_path_has_extension |-> x,
      overwrite_file |-> o, custom_message |-> c] :
        u \in {<<"a">> \o DotM3u8, <<"a">> \o DotMp4, <<>>}, p \in OutputPaths,
        x \in BOOLEAN, o \in BOOLEAN, c \in {None, Some("custom")}}

Old == <<"o", "l", "d">>

DtfFrame == UNCHANGED <<dmVars, grVars, pcVars, hlsVars, selVars, catVars, pbVars, styleVars, rcVars, rmxVars, retryVars, fmtVars, batchVars, clrVars, coVars>>

InitDTF ==
    /\ task \in DtfTasks
    /\ response_url \in UrlSegments
    /\ is_m3u8 = None
    /\ output_path = None
    /\ message = None
    /\ \E names \in SUBSET {<<"e">> \o DotTs, <<"e">> \o DotMp4} :
          files = [n \in names |-> Old]
    /\ files0 = files
    /\ dtfEntries = 0
    /\ dtfPc = "parse"
    /\ dtfResult = "none"
    /\ max_concurrent = DmIdle.max_concurrent
    /\ senderOpen = DmIdle.senderOpen
    /\ sent = DmIdle.sent
    /\ rx_stream = DmIdle.rx_stream
    /\ streamDone = DmIdle.streamDone
    /\ inflight = DmIdle.inflight
    /\ startCount = DmIdle.startCount
    /\ returned = DmIdle.returned
    /\ warned = DmIdle.warned
    /\ dmPc = DmIdle.dmPc
    /\ tickPc = DmIdle.tickPc
    /\ client = GrIdle.client
    /\ referer = GrIdle.referer
    /\ last_url = GrIdle.last_url
    /\ redirect_count = GrIdle.redirect_count
    /\ grPc = GrIdle.grPc
    /\ grResult = GrIdle.grResult
    /\ response = GrIdle.response
    /\ transport = GrIdle.transport
    /\ wire = GrIdle.wire
    /\ serverRedirects = GrIdle.serverRedirects
    /\ redirectsSeen = GrIdle.redirectsSeen
    /\ seg = PcIdle.seg
    /\ pos = PcIdle.pos
    /\ decryptor = PcIdle.decryptor
    /\ written = PcIdle.written
    /\ segPc = PcIdle.segPc
    /\ segError = PcIdle.segError
    /\ playlist = HlsIdle.playlist
    /\ segPos = HlsIdle.segPos
    /\ segement_index = HlsIdle.segement_index
    /\ current_encryption = HlsIdle.current_encryption
    /\ keyFetches = HlsIdle.keyFetches
    /\ segLog = HlsIdle.segLog
    /\ hlsPc = HlsIdle.hlsPc
    /\ hlsError = HlsIdle.hlsError
    /\ hlsEntry = HlsIdle.hlsEntry
    /\ segRequests = HlsIdle.segRequests
    /\ doc = SelIdle.doc
    /\ served = SelIdle.served
    /\ highest_quality_variant = SelIdle.highest_quality_variant
    /\ media_playlist = SelIdle.media_playlist
    /\ segmentsFetched = SelIdle.segmentsFetched
    /\ selPc = SelIdle.selPc
    /\ selError = SelIdle.selError
    /\ media_segments = CatIdle.media_segments
    /\ segIdx = CatIdle.segIdx
    /\ requested = CatIdle.requested
    /\ chunkPos = CatIdle.chunkPos
    /\ segDecryptor = CatIdle.segDecryptor
    /\ output_stream = CatIdle.output_stream
    /\ downloaded_bytes = CatIdle.downloaded_bytes
    /\ catPc = CatIdle.catPc
    /\ catError = CatIdle.catError
    /\ transfers = PbIdle.transfers
    /\ sub_progresses = PbIdle.sub_progresses
    /\ bars = PbIdle.bars
    /\ total_progress = PbIdle.total_progress
    /\ state = StyleIdle.state
    /\ w = StyleIdle.w
    /\ borrowFlag = RcIdle.borrowFlag
    /\ running = RcIdle.running
    /\ rcTasks = RcIdle.rcTasks
    /\ panicked = RcIdle.panicked
    /\ ffmpeg_path = RmxIdle.ffmpeg_path
    /\ debug = RmxIdle.debug
    /\ rmxSegments = RmxIdle.rmxSegments
    /\ flushed = RmxIdle.flushed
    /\ ffmpeg_cmd = RmxIdle.ffmpeg_cmd
    /\ ffmpeg_result = RmxIdle.ffmpeg_result
    /\ disk = RmxIdle.disk
    /\ rmxLog = RmxIdle.rmxLog
    /\ rmxEntry = RmxIdle.rmxEntry
    /\ rmxPc = RmxIdle.rmxPc
    /\ rmxResult = RmxIdle.rmxResult
    /\ resStatus = RetryIdle.resStatus
    /\ retryable = RetryIdle.retryable
    /\ n_past_retries = RetryIdle.n_past_retries
    /\ handed = RetryIdle.handed
    /\ retryPc = RetryIdle.retryPc
    /\ episode_info = FmtIdle.episode_info
    /\ formatted = FmtIdle.formatted
    /\ episodes_request = BatchIdle.episodes_request
    /\ max_episodes = BatchIdle.max_episodes
    /\ episode = BatchIdle.episode
    /\ got_error = BatchIdle.got_error
    /\ scrapeWarned = BatchIdle.scrapeWarned
    /\ batchChannel = BatchIdle.batchChannel
    /\ transferWarned = BatchIdle.transferWarned
    /\ downloader_result = BatchIdle.downloader_result
    /\ fatal = BatchIdle.fatal
    /\ exit_status = BatchIdle.exit_status
    /\ dropped = ClrIdle.dropped
    /\ totalMark = ClrIdle.totalMark
    /\ totalPercent = ClrIdle.totalPercent
    /\ coTasks = CoIdle.coTasks
    /\ coFiles = CoIdle.coFiles
    /\ ffmpeg_installed = CoIdle.ffmpeg_installed

DtfReturn(result) ==
    /\ dtfPc' = "returned"
    /\ dtfResult' = result

\* Url::parse(&task.url)
ParseUrl ==
    /\ dtfPc = "parse"
    /\ dtfPc' = IF url_parse(task.url) = None THEN AfterParseError(dtfPc)
                ELSE "get_response"
    /\ dtfResult' = IF dtfPc' = "returned" THEN "failed to parse URL" ELSE dtfResult
    /\ UNCHANGED <<task, response_url, is_m3u8, output_path, message, files, files0,
                   dtfEntries>>
    /\ DtfFrame

\* get_response returns; the kind, the output path and the message follow
\* from the response's URL and the task.
DtfGetResponse(ok) ==
    /\ dtfPc = "get_response"
    /\ IF ~ok
       THEN /\ DtfReturn("request failed")
            /\ UNCHANGED <<is_m3u8, output_path, message>>
       ELSE LET m3u8 == is_m3u8_url(response_url)
                path == OutputPath(task, m3u8)
                final_path == IF m3u8 THEN with_extension_mp4(path) ELSE path
            IN /\ is_m3u8' = Some(m3u8)
               /\ output_path' = Some(path)
               /\ IF task.custom_message # None
                  THEN /\ message' = task.custom_message
                       /\ dtfPc' = "open"
                       /\ UNCHANGED dtfResult
                  ELSE IF final_path.file_name = None
                  THEN /\ DtfReturn("failed to get file name")
                       /\ UNCHANGED message
                  ELSE /\ message' = final_path.file_name
                       /\ dtfPc' = "open"
                       /\ UNCHANGED dtfResult
    /\ UNCHANGED <<task, response_url, files, files0, dtfEntries>>
    /\ DtfFrame

\* OpenOptions::open(&output_path).  A path without a file name cannot be
\* opened as a file; any open can fail for a reason of the file system.
\* simple_download creates its bar before its first await.
OpenTarget(ioError) ==
    /\ dtfPc = "open"
    /\ LET path == Unwrap(output_path)
           name == Unwrap(path.file_name)
       IN IF \/ path.file_name = None
             \/ ioError
             \/ AlreadyExists(task.overwrite_file, name \in DOMAIN files)
          THEN /\ DtfReturn("failed to open download target file")
               /\ UNCHANGED <<files, dtfEntries>>
          ELSE /\ files' = [n \in DOMAIN files \cup {name} |->
                               IF n = name THEN <<>> ELSE files[n]]
               /\ dtfPc' = IF Unwrap(is_m3u8) THEN "m3u8_download"
                           ELSE "simple_download"
               /\ dtfEntries' = IF Unwrap(is_m3u8) THEN dtfEntries ELSE dtfEntries + 1
               /\ UNCHANGED dtfResult
    /\ UNCHANGED <<task, response_url, is_m3u8, output_path, message, files0>>
    /\ DtfFrame

\* m3u8_download: the playlist is resolved and the bar created, or not.
ResolvePlaylist(ok) ==
    /\ dtfPc = "m3u8_download"
    /\ IF ok THEN /\ dtfEntries' = dtfEntries + 1
                  /\ dtfPc' = "body"
                  /\ UNCHANGED dtfResult
       ELSE /\ DtfReturn("playlist")
            /\ UNCHANGED dtfEntries
    /\ files' = IF ok THEN files
                ELSE ErrorLeaves(files, Unwrap(Unwrap(output_path).file_name))
    /\ UNCHANGED <<task, response_url, is_m3u8, output_path, message, files0>>
    /\ DtfFrame

\* The transfer fails after the bar was created (a key or a segment cannot
\* be fetched, the decryption or a read or a write fails), with a part of
\* the body written or nothing of it.
BodyFails(partial) ==
    /\ dtfPc \in {"simple_download", "body"}
    /\ LET name == Unwrap(Unwrap(output_path).file_name)
           written_so_far == [files EXCEPT ![name] = @ \o partial]
       IN files' = ErrorLeaves(written_so_far, name)
    /\ DtfReturn("failed download")
    /\ UNCHANGED <<task, response_url, is_m3u8, output_path, message, files0, dtfEntries>>
    /\ DtfFrame

\* The body is written to the target file, the transfer returns.
WriteBody ==
    /\ dtfPc \in {"simple_download", "body"}
    /\ files' = [files EXCEPT ![Unwrap(Unwrap(output_path).file_name)] =
                    @ \o <<"n", "e", "w">>]
    /\ DtfReturn("ok")
    /\ UNCHANGED <<task, response_url, is_m3u8, output_path, message, files0, dtfEntries>>
    /\ DtfFrame

NextDTF ==
    \/ ParseUrl
    \/ \E ok \in BOOLEAN : DtfGetResponse(ok)
    \/ \E ioError \in BOOLEAN : OpenTarget(ioError)
    \/ \E ok \in BOOLEAN : ResolvePlaylist(ok)
    \/ WriteBody
    \/ \E partial \in {<<>>, <<"n">>} : BodyFails(partial)

SpecDTF == InitDTF /\ [][NextDTF]_vars

(***************************************************************************)
(*   retry::strategy: the classification of a response, and the retry      *)
(*   loop of the client that asks for it                                   *)
(***************************************************************************)
MaxRetries == 2   \* build_with_max_retries(5), scaled down

\* http::StatusCode: 100..=999
StatusCodes == 100..999

\* StatusCode::is_server_error, is_client_error, is_success
is_server_error(s) == 500 <= s /\ s <= 599
is_client_error(s) == 400 <= s /\ s <= 499
is_success(s)      == 200 <= s /\ s <= 299
REQUEST_TIMEOUT    == 408
TOO_MANY_REQUESTS  == 429

\* The branch added to the copy of the library's strategy.
RedirectsStayFatal(s) == FALSE
RedirectsNotFatal(s) == s \in {301, 308, 302, 303, 307}

\* default_on_request_success: Option<Retryable> as "None", "Transient", "Fatal"
default_on_request_success(s) ==
    IF is_server_error(s) THEN "Transient"
    ELSE IF is_client_error(s) /\ s # REQUEST_TIMEOUT /\ s # TOO_MANY_REQUESTS
    THEN "Fatal"
    ELSE IF is_success(s) THEN "None"
    ELSE IF s = REQUEST_TIMEOUT \/ s = TOO_MANY_REQUESTS THEN "Transient"
    ELSE IF RedirectsNotFatal(s) THEN "None"
    ELSE "Fatal"

RetryFrame == UNCHANGED <<dmVars, grVars, pcVars, hlsVars, selVars, catVars, pbVars, styleVars, rcVars, rmxVars, dtfVars, fmtVars, batchVars, clrVars, coVars>>

InitRetry ==
    /\ resStatus \in StatusCodes
    /\ retryable = "unset"
    /\ n_past_retries = 0
    /\ handed = None
    /\ retryPc = "execute"
    /\ max_concurrent = DmIdle.max_concurrent
    /\ senderOpen = DmIdle.senderOpen
    /\ sent = DmIdle.sent
    /\ rx_stream = DmIdle.rx_stream
    /\ streamDone = DmIdle.streamDone
    /\ inflight = DmIdle.inflight
    /\ startCount = DmIdle.startCount
    /\ returned = DmIdle.returned
    /\ warned = DmIdle.warned
    /\ dmPc = DmIdle.dmPc
    /\ tickPc = DmIdle.tickPc
    /\ client = GrIdle.client
    /\ referer = GrIdle.referer
    /\ last_url = GrIdle.last_url
    /\ redirect_count = GrIdle.redirect_count
    /\ grPc = GrIdle.grPc
    /\ grResult = GrIdle.grResult
    /\ response = GrIdle.response
    /\ transport = GrIdle.transport
    /\ wire = GrIdle.wire
    /\ serverRedirects = GrIdle.serverRedirects
    /\ redirectsSeen = GrIdle.redirectsSeen
    /\ seg = PcIdle.seg
    /\ pos = PcIdle.pos
    /\ decryptor = PcIdle.decryptor
    /\ written = PcIdle.written
    /\ segPc = PcIdle.segPc
    /\ segError = PcIdle.segError
    /\ playlist = HlsIdle.playlist
    /\ segPos = HlsIdle.segPos
    /\ segement_index = HlsIdle.segement_index
    /\ current_encryption = HlsIdle.current_encryption
    /\ keyFetches = HlsIdle.keyFetches
    /\ segLog = HlsIdle.segLog
    /\ hlsPc = HlsIdle.hlsPc
    /\ hlsError = HlsIdle.hlsError
    /\ hlsEntry = HlsIdle.hlsEntry
    /\ segRequests = HlsIdle.segRequests
    /\ doc = SelIdle.doc
    /\ served = SelIdle.served
    /\ highest_quality_variant = SelIdle.highest_quality_variant
    /\ media_playlist = SelIdle.media_playlist
    /\ segmentsFetched = SelIdle.segmentsFetched
    /\ selPc = SelIdle.selPc
    /\ selError = SelIdle.selError
    /\ media_segments = CatIdle.media_segments
    /\ segIdx = CatIdle.segIdx
    /\ requested = CatIdle.requested
    /\ chunkPos = CatIdle.chunkPos
    /\ segDecryptor = CatIdle.segDecryptor
    /\ output_stream = CatIdle.output_stream
    /\ downloaded_bytes = CatIdle.downloaded_bytes
    /\ catPc = CatIdle.catPc
    /\ catError = CatIdle.catError
    /\ transfers = PbIdle.transfers
    /\ sub_progresses = PbIdle.sub_progresses
    /\ bars = PbIdle.bars
    /\ total_progress = PbIdle.total_progress
    /\ state = StyleIdle.state
    /\ w = StyleIdle.w
    /\ borrowFlag = RcIdle.borrowFlag
    /\ running = RcIdle.running
    /\ rcTasks = RcIdle.rcTasks
    /\ panicked = RcIdle.panicked
    /\ ffmpeg_path = RmxIdle.ffmpeg_path
    /\ debug = RmxIdle.debug
    /\ rmxSegments = RmxIdle.rmxSegments
    /\ flushed = RmxIdle.flushed
    /\ ffmpeg_cmd = RmxIdle.ffmpeg_cmd
    /\ ffmpeg_result = RmxIdle.ffmpeg_result
    /\ disk = RmxIdle.disk
    /\ rmxLog = RmxIdle.rmxLog
    /\ rmxEntry = RmxIdle.rmxEntry
    /\ rmxPc = RmxIdle.rmxPc
    /\ rmxResult = RmxIdle.rmxResult
    /\ task = DtfIdle.task
    /\ response_url = DtfIdle.response_url
    /\ is_m3u8 = DtfIdle.is_m3u8
    /\ output_path = DtfIdle.output_path
    /\ message = DtfIdle.message
    /\ files = DtfIdle.files
    /\ files0 = DtfIdle.files0
    /\ dtfEntries = DtfIdle.dtfEntries
    /\ dtfPc = DtfIdle.dtfPc
    /\ dtfResult = DtfIdle.dtfResult
    /\ episode_info = FmtIdle.episode_info
    /\ formatted = FmtIdle.formatted
    /\ episodes_request = BatchIdle.episodes_request
    /\ max_episodes = BatchIdle.max_episodes
    /\ episode = BatchIdle.episode
    /\ got_error = BatchIdle.got_error
    /\ scrapeWarned = BatchIdle.scrapeWarned
    /\ batchChannel = BatchIdle.batchChannel
    /\ transferWarned = BatchIdle.transferWarned
    /\ downloader_result = BatchIdle.downloader_result
    /\ fatal = BatchIdle.fatal
    /\ exit_status = BatchIdle.exit_status
    /\ dropped = ClrIdle.dropped
    /\ totalMark = ClrIdle.totalMark
    /\ totalPercent = ClrIdle.totalPercent
    /\ coTasks = CoIdle.coTasks
    /\ coFiles = CoIdle.coFiles
    /\ ffmpeg_installed = CoIdle.ffmpeg_installed

\* CustomRetryStrategy::handle on Ok(response)
Handle ==
    /\ retryPc = "execute"
    /\ retryable' = default_on_request_success(resStatus)
    /\ retryPc' = "handled"
    /\ UNCHANGED <<resStatus, n_past_retries, handed>>
    /\ RetryFrame

\* A Transient response is retried while the policy allows it; the next
\* response has any status.
Retry(s) ==
    /\ retryPc = "handled"
    /\ retryable = "Transient"
    /\ n_past_retries < MaxRetries
    /\ n_past_retries' = n_past_retries + 1
    /\ resStatus' = s
    /\ retryable' = "unset"
    /\ retryPc' = "execute"
    /\ UNCHANGED handed
    /\ RetryFrame

\* Anything else ends the loop: a response that is neither Transient nor
\* Fatal is handed to the caller; a Fatal one, or a Transient one when the
\* retries are used up, is handed over or turned into an error.
Stop(asResponse) ==
    /\ retryPc = "handled"
    /\ retryable = "Transient" => n_past_retries >= MaxRetries
    /\ retryable = "None" => asResponse
    /\ handed' = IF asResponse THEN Some(resStatus) ELSE None
    /\ retryPc' = "done"
    /\ UNCHANGED <<resStatus, retryable, n_past_retries>>
    /\ RetryFrame

NextRetry ==
    \/ Handle
    \/ \E s \in StatusCodes : Retry(s)
    \/ \E asResponse \in BOOLEAN : Stop(asResponse)

SpecRetry == InitRetry /\ [][NextRetry]_vars

(***************************************************************************)
(*   get_episode_name and format_episode_number: the episode number        *)
(***************************************************************************)
MaxEpisodeNumber == 120   \* largest numeric episode number tried

\* max_episode_number_in_season values tried
SeasonMaxima == {0, 1, 9, 10, 15, 99, 100, 1500}

\* u32::checked_ilog10
RECURSIVE ilog10(_)
ilog10(n) == IF n < 10 THEN 0 ELSE 1 + ilog10(n \div 10)
checked_ilog10(n) == IF n = 0 THEN None ELSE Some(ilog10(n))

\* Display of an unsigned integer: its decimal digits
DigitChars == <<"0", "1", "2", "3", "4", "5", "6", "7", "8", "9">>
RECURSIVE DisplayU32(_)
DisplayU32(n) ==
    IF n < 10 THEN <<DigitChars[n + 1]>>
    ELSE Append(DisplayU32(n \div 10), DigitChars[(n % 10) + 1])

\* format!("{s:0>fill$}"): zeros on the left up to the width, never cut
RECURSIVE PadLeft(_, _)
PadLeft(s, fill) == IF Len(s) >= fill THEN s ELSE PadLeft(<<"0">> \o s, fill)

\* get_episode_name: alignment_episode_number
AlignmentEpisodeNumber(max) ==
    IF max = None THEN None
    ELSE LET l == checked_ilog10(Unwrap(max))
         IN Some((IF l = None THEN 0 ELSE Unwrap(l)) + 1)

unwrap_or(o, default) == IF o = None THEN default ELSE Unwrap(o)

\* str::trim, for spaces
RECURSIVE Trim(_)
Trim(s) ==
    IF s = <<>> THEN s
    ELSE IF Head(s) = " " THEN Trim(Tail(s))
    ELSE IF s[Len(s)] = " " THEN Trim(SubSeq(s, 1, Len(s) - 1))
    ELSE s

AllDigits(s) == \A i \in 1..Len(s) : \E d \in 1..10 : s[i] = DigitChars[d]

\* format_episode_number
format_episode_number(episode_number, alignment_episode_number) ==
    IF episode_number.kind = "Number"
    THEN PadLeft(DisplayU32(episode_number.value), unwrap_or(alignment_episode_number, 2))
    ELSE LET trimmed == Trim(episode_number.value)
             delims == {i \in 1..Len(trimmed) : trimmed[i] \in {".", ","}}
         IN IF delims = {} THEN trimmed
            ELSE LET at == CHOOSE i \in delims : \A j \in delims : i <= j
                     pre == SubSeq(trimmed, 1, at - 1)
                     post == SubSeq(trimmed, at + 1, Len(trimmed))
                 IN IF AllDigits(pre) /\ AllDigits(post)
                    THEN PadLeft(pre, unwrap_or(alignment_episode_number, 2))
                            \o <<trimmed[at]>> \o post
                    ELSE trimmed

\* EpisodeNumber values tried
EpisodeNumbers ==
    {[kind |-> "Number", value |-> n] : n \in 0..MaxEpisodeNumber}
    \cup {[kind |-> "String", value |-> s] :
            s \in {<<"1", "5", ".", "5">>, <<" ", "7", ",", "5", " ">>,
                   <<"1", ".", "2", ".", "3">>, <<"O", "V", "A">>}}

FmtFrame == UNCHANGED <<dmVars, grVars, pcVars, hlsVars, selVars, catVars, pbVars, styleVars, rcVars, rmxVars, dtfVars, retryVars, batchVars, clrVars, coVars>>

InitFmt ==
    /\ \E e \in EpisodeNumbers, max \in {None} \cup {Some(m) : m \in SeasonMaxima} :
          episode_info = [episode_number |-> e, max_episode_number_in_season |-> max]
    /\ formatted = None
    /\ max_concurrent = DmIdle.max_concurrent
    /\ senderOpen = DmIdle.senderOpen
    /\ sent = DmIdle.sent
    /\ rx_stream = DmIdle.rx_stream
    /\ streamDone = DmIdle.streamDone
    /\ inflight = DmIdle.inflight
    /\ startCount = DmIdle.startCount
    /\ returned = DmIdle.returned
    /\ warned = DmIdle.warned
    /\ dmPc = DmIdle.dmPc
    /\ tickPc = DmIdle.tickPc
    /\ client = GrIdle.client
    /\ referer = GrIdle.referer
    /\ last_url = GrIdle.last_url
    /\ redirect_count = GrIdle.redirect_count
    /\ grPc = GrIdle.grPc
    /\ grResult = GrIdle.grResult
    /\ response = GrIdle.response
    /\ transport = GrIdle.transport
    /\ wire = GrIdle.wire
    /\ serverRedirects = GrIdle.serverRedirects
    /\ redirectsSeen = GrIdle.redirectsSeen
    /\ seg = PcIdle.seg
    /\ pos = PcIdle.pos
    /\ decryptor = PcIdle.decryptor
    /\ written = PcIdle.written
    /\ segPc = PcIdle.segPc
    /\ segError = PcIdle.segError
    /\ playlist = HlsIdle.playlist
    /\ segPos = HlsIdle.segPos
    /\ segement_index = HlsIdle.segement_index
    /\ current_encryption = HlsIdle.current_encryption
    /\ keyFetches = HlsIdle.keyFetches
    /\ segLog = HlsIdle.segLog
    /\ hlsPc = HlsIdle.hlsPc
    /\ hlsError = HlsIdle.hlsError
    /\ hlsEntry = HlsIdle.hlsEntry
    /\ segRequests = HlsIdle.segRequests
    /\ doc = SelIdle.doc
    /\ served = SelIdle.served
    /\ highest_quality_variant = SelIdle.highest_quality_variant
    /\ media_playlist = SelIdle.media_playlist
    /\ segmentsFetched = SelIdle.segmentsFetched
    /\ selPc = SelIdle.selPc
    /\ selError = SelIdle.selError
    /\ media_segments = CatIdle.media_segments
    /\ segIdx = CatIdle.segIdx
    /\ requested = CatIdle.requested
    /\ chunkPos = CatIdle.chunkPos
    /\ segDecryptor = CatIdle.segDecryptor
    /\ output_stream = CatIdle.output_stream
    /\ downloaded_bytes = CatIdle.downloaded_bytes
    /\ catPc = CatIdle.catPc
    /\ catError = CatIdle.catError
    /\ transfers = PbIdle.transfers
    /\ sub_progresses = PbIdle.sub_progresses
    /\ bars = PbIdle.bars
    /\ total_progress = PbIdle.total_progress
    /\ state = StyleIdle.state
    /\ w = StyleIdle.w
    /\ borrowFlag = RcIdle.borrowFlag
    /\ running = RcIdle.running
    /\ rcTasks = RcIdle.rcTasks
    /\ panicked = RcIdle.panicked
    /\ ffmpeg_path = RmxIdle.ffmpeg_path
    /\ debug = RmxIdle.debug
    /\ rmxSegments = RmxIdle.rmxSegments
    /\ flushed = RmxIdle.flushed
    /\ ffmpeg_cmd = RmxIdle.ffmpeg_cmd
    /\ ffmpeg_result = RmxIdle.ffmpeg_result
    /\ disk = RmxIdle.disk
    /\ rmxLog = RmxIdle.rmxLog
    /\ rmxEntry = RmxIdle.rmxEntry
    /\ rmxPc = RmxIdle.rmxPc
    /\ rmxResult = RmxIdle.rmxResult
    /\ task = DtfIdle.task
    /\ response_url = DtfIdle.response_url
    /\ is_m3u8 = DtfIdle.is_m3u8
    /\ output_path = DtfIdle.output_path
    /\ message = DtfIdle.message
    /\ files = DtfIdle.files
    /\ files0 = DtfIdle.files0
    /\ dtfEntries = DtfIdle.dtfEntries
    /\ dtfPc = DtfIdle.dtfPc
    /\ dtfResult = DtfIdle.dtfResult
    /\ resStatus = RetryIdle.resStatus
    /\ retryable = RetryIdle.retryable
    /\ n_past_retries = RetryIdle.n_past_retries
    /\ handed = RetryIdle.handed
    /\ retryPc = RetryIdle.retryPc
    /\ episodes_request = BatchIdle.episodes_request
    /\ max_episodes = BatchIdle.max_episodes
    /\ episode = BatchIdle.episode
    /\ got_error = BatchIdle.got_error
    /\ scrapeWarned = BatchIdle.scrapeWarned
    /\ batchChannel = BatchIdle.batchChannel
    /\ transferWarned = BatchIdle.transferWarned
    /\ downloader_result = BatchIdle.downloader_result
    /\ fatal = BatchIdle.fatal
    /\ exit_status = BatchIdle.exit_status
    /\ dropped = ClrIdle.dropped
    /\ totalMark = ClrIdle.totalMark
    /\ totalPercent = ClrIdle.totalPercent
    /\ coTasks = CoIdle.coTasks
    /\ coFiles = CoIdle.coFiles
    /\ ffmpeg_installed = CoIdle.ffmpeg_installed

\* get_episode_name computes the alignment and formats the episode number.
GetEpisodeName ==
    /\ formatted = None
    /\ formatted' = Some(format_episode_number(episode_info.episode_number,
                       AlignmentEpisodeNumber(episode_info.max_episode_number_in_season)))
    /\ UNCHANGED episode_info
    /\ FmtFrame

NextFmt == \/ GetEpisodeName

SpecFmt == InitFmt /\ [][NextFmt]_vars

(***************************************************************************)
(*   Batch mode: do_after_chrome_driver with a series downloader, one      *)
(*   season scraped by Scraper::scrape_season and its episodes transferred *)
(*   by DownloadManager::progress_downloads, up to the exit of the process *)
(***************************************************************************)
MaxEpisodes == 3   \* largest number of episodes of the season

BatchEpisodes == 1..MaxEpisodes

\* main: std::process::exit(1) if should_error_quit, else the normal end
ExitStatus(should_error_quit) == IF should_error_quit THEN 1 ELSE 0

\* scrape_season: the value returned after the loop
SeasonResult(err) == IF err THEN "Err" ELSE "Ok"

BatchFrame == UNCHANGED <<dmVars, grVars, pcVars, hlsVars, selVars, catVars, pbVars, styleVars, rcVars, rmxVars, dtfVars, retryVars, fmtVars, clrVars, coVars>>

InitBatch ==
    /\ max_concurrent = DmIdle.max_concurrent
    /\ senderOpen = DmIdle.senderOpen
    /\ sent = DmIdle.sent
    /\ rx_stream = DmIdle.rx_stream
    /\ streamDone = DmIdle.streamDone
    /\ inflight = DmIdle.inflight
    /\ startCount = DmIdle.startCount
    /\ returned = DmIdle.returned
    /\ warned = DmIdle.warned
    /\ dmPc = DmIdle.dmPc
    /\ tickPc = DmIdle.tickPc
    /\ client = GrIdle.client
    /\ referer = GrIdle.referer
    /\ last_url = GrIdle.last_url
    /\ redirect_count = GrIdle.redirect_count
    /\ grPc = GrIdle.grPc
    /\ grResult = GrIdle.grResult
    /\ response = GrIdle.response
    /\ transport = GrIdle.transport
    /\ wire = GrIdle.wire
    /\ serverRedirects = GrIdle.serverRedirects
    /\ redirectsSeen = GrIdle.redirectsSeen
    /\ seg = PcIdle.seg
    /\ pos = PcIdle.pos
    /\ decryptor = PcIdle.decryptor
    /\ written = PcIdle.written
    /\ segPc = PcIdle.segPc
    /\ segError = PcIdle.segError
    /\ playlist = HlsIdle.playlist
    /\ segPos = HlsIdle.segPos
    /\ segement_index = HlsIdle.segement_index
    /\ current_encryption = HlsIdle.current_encryption
    /\ keyFetches = HlsIdle.keyFetches
    /\ segLog = HlsIdle.segLog
    /\ hlsPc = HlsIdle.hlsPc
    /\ hlsError = HlsIdle.hlsError
    /\ hlsEntry = HlsIdle.hlsEntry
    /\ segRequests = HlsIdle.segRequests
    /\ doc = SelIdle.doc
    /\ served = SelIdle.served
    /\ highest_quality_variant = SelIdle.highest_quality_variant
    /\ media_playlist = SelIdle.media_playlist
    /\ segmentsFetched = SelIdle.segmentsFetched
    /\ selPc = SelIdle.selPc
    /\ selError = SelIdle.selError
    /\ media_segments = CatIdle.media_segments
    /\ segIdx = CatIdle.segIdx
    /\ requested = CatIdle.requested
    /\ chunkPos = CatIdle.chunkPos
    /\ segDecryptor = CatIdle.segDecryptor
    /\ output_stream = CatIdle.output_stream
    /\ downloaded_bytes = CatIdle.downloaded_bytes
    /\ catPc = CatIdle.catPc
    /\ catError = CatIdle.catError
    /\ transfers = PbIdle.transfers
    /\ sub_progresses = PbIdle.sub_progresses
    /\ bars = PbIdle.bars
    /\ total_progress = PbIdle.total_progress
    /\ state = StyleIdle.state
    /\ w = StyleIdle.w
    /\ borrowFlag = RcIdle.borrowFlag
    /\ running = RcIdle.running
    /\ rcTasks = RcIdle.rcTasks
    /\ panicked = RcIdle.panicked
    /\ ffmpeg_path = RmxIdle.ffmpeg_path
    /\ debug = RmxIdle.debug
    /\ rmxSegments = RmxIdle.rmxSegments
    /\ flushed = RmxIdle.flushed
    /\ ffmpeg_cmd = RmxIdle.ffmpeg_cmd
    /\ ffmpeg_result = RmxIdle.ffmpeg_result
    /\ disk = RmxIdle.disk
    /\ rmxLog = RmxIdle.rmxLog
    /\ rmxEntry = RmxIdle.rmxEntry
    /\ rmxPc = RmxIdle.rmxPc
    /\ rmxResult = RmxIdle.rmxResult
    /\ task = DtfIdle.task
    /\ response_url = DtfIdle.response_url
    /\ is_m3u8 = DtfIdle.is_m3u8
    /\ output_path = DtfIdle.output_path
    /\ message = DtfIdle.message
    /\ files = DtfIdle.files
    /\ files0 = DtfIdle.files0
    /\ dtfEntries = DtfIdle.dtfEntries
    /\ dtfPc = DtfIdle.dtfPc
    /\ dtfResult = DtfIdle.dtfResult
    /\ resStatus = RetryIdle.resStatus
    /\ retryable = RetryIdle.retryable
    /\ n_past_retries = RetryIdle.n_past_retries
    /\ handed = RetryIdle.handed
    /\ retryPc = RetryIdle.retryPc
    /\ episode_info = FmtIdle.episode_info
    /\ formatted = FmtIdle.formatted
    /\ episodes_request \in (SUBSET BatchEpisodes) \ {{}}
    /\ max_episodes = None
    /\ episode = 0
    /\ got_error = FALSE
    /\ scrapeWarned = {}
    /\ batchChannel = <<>>
    /\ transferWarned = {}
    /\ downloader_result = None
    /\ fatal = None
    /\ exit_status = None
    /\ dropped = ClrIdle.dropped
    /\ totalMark = ClrIdle.totalMark
    /\ totalPercent = ClrIdle.totalPercent
    /\ coTasks = CoIdle.coTasks
    /\ coFiles = CoIdle.coFiles
    /\ ffmpeg_installed = CoIdle.ffmpeg_installed

\* get_series_info fails: logged, do_after_chrome_driver returns true
SeriesInfoFails ==
    /\ exit_status = None /\ downloader_result = None
    /\ max_episodes = None /\ fatal = None
    /\ fatal' = Some("Failed to get series info")
    /\ exit_status' = Some(ExitStatus(TRUE))
    /\ UNCHANGED <<episodes_request, max_episodes, episode, got_error, scrapeWarned,
                   batchChannel, transferWarned, downloader_result>>
    /\ BatchFrame

\* scrape_season up to its loop: the season's first page and the episode
\* info; a failure there is returned with `?`
SeasonPage(ok, max) ==
    /\ exit_status = None /\ downloader_result = None
    /\ max_episodes = None
    /\ IF ok
       THEN /\ max_episodes' = Some(max)
            /\ episode' = 1
            /\ UNCHANGED <<downloader_result, fatal>>
       ELSE /\ downloader_result' = Some("Err")
            /\ fatal' = Some("failed to get episode info")
            /\ UNCHANGED <<max_episodes, episode>>
    /\ UNCHANGED <<episodes_request, got_error, scrapeWarned, batchChannel,
                   transferWarned, exit_status>>
    /\ BatchFrame

\* one turn of the loop of scrape_season: scrape_episode sends the task of
\* the episode, or fails, which is logged and remembered in got_error
ScrapeEpisode(ok) ==
    /\ downloader_result = None
    /\ max_episodes # None /\ episode <= Unwrap(max_episodes)
    /\ IF episode \notin episodes_request
       THEN UNCHANGED <<got_error, scrapeWarned, batchChannel>>
       ELSE IF ok
       THEN /\ batchChannel' = Append(batchChannel, episode)
            /\ UNCHANGED <<got_error, scrapeWarned>>
       ELSE /\ got_error' = TRUE
            /\ scrapeWarned' = scrapeWarned \cup {episode}
            /\ UNCHANGED batchChannel
    /\ episode' = episode + 1
    /\ UNCHANGED <<episodes_request, max_episodes, transferWarned, downloader_result,
                   fatal, exit_status>>
    /\ BatchFrame

\* the end of scrape_season: bail!("failed to download complete season")
\* if got_error; the sender is dropped with the scraper
SeasonEnd ==
    /\ downloader_result = None
    /\ max_episodes # None /\ episode > Unwrap(max_episodes)
    /\ downloader_result' = Some(SeasonResult(got_error))
    /\ UNCHANGED <<episodes_request, max_episodes, episode, got_error, scrapeWarned,
                   batchChannel, transferWarned, fatal, exit_status>>
    /\ BatchFrame

\* progress_downloads: one task received and download_to_file run on it; a
\* failure is logged and nothing else
Transfer(ok) ==
    /\ exit_status = None
    /\ batchChannel # <<>>
    /\ batchChannel' = Tail(batchChannel)
    /\ transferWarned' = IF ok THEN transferWarned
                         ELSE transferWarned \cup {Head(batchChannel)}
    /\ UNCHANGED <<episodes_request, max_episodes, episode, got_error, scrapeWarned,
                   downloader_result, fatal, exit_status>>
    /\ BatchFrame

\* tokio::join! is over: download has returned and the stream has ended;
\* `if let Err(err) = downloader_result { ...; return true; }`, else false
BatchExit ==
    /\ exit_status = None
    /\ downloader_result # None /\ batchChannel = <<>>
    /\ exit_status' = Some(ExitStatus(Unwrap(downloader_result) = "Err"))
    /\ UNCHANGED <<episodes_request, max_episodes, episode, got_error, scrapeWarned,
                   batchChannel, transferWarned, downloader_result, fatal>>
    /\ BatchFrame

NextBatch ==
    \/ SeriesInfoFails
    \/ \E ok \in BOOLEAN, max \in BatchEpisodes : SeasonPage(ok, max)
    \/ \E ok \in BOOLEAN : ScrapeEpisode(ok)
    \/ SeasonEnd
    \/ \E ok \in BOOLEAN : Transfer(ok)
    \/ BatchExit

SpecBatch == InitBatch /\ [][NextBatch]_vars

(***************************************************************************)
(*   Downloader::clear and Drop: clean_up_total_progress_bar after the     *)
(*   transfers of the registry                                             *)
(***************************************************************************)
\* The transfers tried here: a simple download without a Content-Length,
\* one with a Content-Length larger than the body, and an HLS download.
ClearInputs == {1, 3, 4}

\* `.iter().all(|pb| pb.is_finished())` over sub_progresses
AllFinished(entries, bs) ==
    \A i \in 1..Len(entries) : EntryIsFinished(entries[i], bs[i])

\* The state the style keys are drawn from, for a bar of the model.
StyleState(bar) == [pos |-> bar.pos, len |-> bar.len, finished |-> BarIsFinished(bar)]

ClrFrame == UNCHANGED <<dmVars, grVars, pcVars, hlsVars, selVars, catVars, styleVars, rcVars, rmxVars, dtfVars, retryVars, fmtVars, batchVars, coVars>>

InitClear ==
    /\ \E f \in [Transfers -> ClearInputs] :
          /\ \A t \in Transfers : t > 1 => f[t - 1] <= f[t]
          /\ transfers = [t \in Transfers |-> NewTransfer(TransferInputs[f[t]])]
    /\ sub_progresses = <<>>
    /\ bars = <<>>
    /\ total_progress = None
    /\ dropped = FALSE
    /\ totalMark = "none"
    /\ totalPercent = None
    /\ max_concurrent = DmIdle.max_concurrent
    /\ senderOpen = DmIdle.senderOpen
    /\ sent = DmIdle.sent
    /\ rx_stream = DmIdle.rx_stream
    /\ streamDone = DmIdle.streamDone
    /\ inflight = DmIdle.inflight
    /\ startCount = DmIdle.startCount
    /\ returned = DmIdle.returned
    /\ warned = DmIdle.warned
    /\ dmPc = DmIdle.dmPc
    /\ tickPc = DmIdle.tickPc
    /\ client = GrIdle.client
    /\ referer = GrIdle.referer
    /\ last_url = GrIdle.last_url
    /\ redirect_count = GrIdle.redirect_count
    /\ grPc = GrIdle.grPc
    /\ grResult = GrIdle.grResult
    /\ response = GrIdle.response
    /\ transport = GrIdle.transport
    /\ wire = GrIdle.wire
    /\ serverRedirects = GrIdle.serverRedirects
    /\ redirectsSeen = GrIdle.redirectsSeen
    /\ seg = PcIdle.seg
    /\ pos = PcIdle.pos
    /\ decryptor = PcIdle.decryptor
    /\ written = PcIdle.written
    /\ segPc = PcIdle.segPc
    /\ segError = PcIdle.segError
    /\ playlist = HlsIdle.playlist
    /\ segPos = HlsIdle.segPos
    /\ segement_index = HlsIdle.segement_index
    /\ current_encryption = HlsIdle.current_encryption
    /\ keyFetches = HlsIdle.keyFetches
    /\ segLog = HlsIdle.segLog
    /\ hlsPc = HlsIdle.hlsPc
    /\ hlsError = HlsIdle.hlsError
    /\ hlsEntry = HlsIdle.hlsEntry
    /\ segRequests = HlsIdle.segRequests
    /\ doc = SelIdle.doc
    /\ served = SelIdle.served
    /\ highest_quality_variant = SelIdle.highest_quality_variant
    /\ media_playlist = SelIdle.media_playlist
    /\ segmentsFetched = SelIdle.segmentsFetched
    /\ selPc = SelIdle.selPc
    /\ selError = SelIdle.selError
    /\ media_segments = CatIdle.media_segments
    /\ segIdx = CatIdle.segIdx
    /\ requested = CatIdle.requested
    /\ chunkPos = CatIdle.chunkPos
    /\ segDecryptor = CatIdle.segDecryptor
    /\ output_stream = CatIdle.output_stream
    /\ downloaded_bytes = CatIdle.downloaded_bytes
    /\ catPc = CatIdle.catPc
    /\ catError = CatIdle.catError
    /\ state = StyleIdle.state
    /\ w = StyleIdle.w
    /\ borrowFlag = RcIdle.borrowFlag
    /\ running = RcIdle.running
    /\ rcTasks = RcIdle.rcTasks
    /\ panicked = RcIdle.panicked
    /\ ffmpeg_path = RmxIdle.ffmpeg_path
    /\ debug = RmxIdle.debug
    /\ rmxSegments = RmxIdle.rmxSegments
    /\ flushed = RmxIdle.flushed
    /\ ffmpeg_cmd = RmxIdle.ffmpeg_cmd
    /\ ffmpeg_result = RmxIdle.ffmpeg_result
    /\ disk = RmxIdle.disk
    /\ rmxLog = RmxIdle.rmxLog
    /\ rmxEntry = RmxIdle.rmxEntry
    /\ rmxPc = RmxIdle.rmxPc
    /\ rmxResult = RmxIdle.rmxResult
    /\ task = DtfIdle.task
    /\ response_url = DtfIdle.response_url
    /\ is_m3u8 = DtfIdle.is_m3u8
    /\ output_path = DtfIdle.output_path
    /\ message = DtfIdle.message
    /\ files = DtfIdle.files
    /\ files0 = DtfIdle.files0
    /\ dtfEntries = DtfIdle.dtfEntries
    /\ dtfPc = DtfIdle.dtfPc
    /\ dtfResult = DtfIdle.dtfResult
    /\ resStatus = RetryIdle.resStatus
    /\ retryable = RetryIdle.retryable
    /\ n_past_retries = RetryIdle.n_past_retries
    /\ handed = RetryIdle.handed
    /\ retryPc = RetryIdle.retryPc
    /\ episode_info = FmtIdle.episode_info
    /\ formatted = FmtIdle.formatted
    /\ episodes_request = BatchIdle.episodes_request
    /\ max_episodes = BatchIdle.max_episodes
    /\ episode = BatchIdle.episode
    /\ got_error = BatchIdle.got_error
    /\ scrapeWarned = BatchIdle.scrapeWarned
    /\ batchChannel = BatchIdle.batchChannel
    /\ transferWarned = BatchIdle.transferWarned
    /\ downloader_result = BatchIdle.downloader_result
    /\ fatal = BatchIdle.fatal
    /\ exit_status = BatchIdle.exit_status
    /\ coTasks = CoIdle.coTasks
    /\ coFiles = CoIdle.coFiles
    /\ ffmpeg_installed = CoIdle.ffmpeg_installed

\* clean_up_total_progress_bar: the aggregate bar, if there is one, is
\* finished if all entries are finished and abandoned otherwise, and drawn.
\* take is clear's `drop(self.total_progress.take())`.
CleanUpTotalProgressBar(take) ==
    /\ dropped' = TRUE
    /\ IF total_progress = None
       THEN UNCHANGED <<total_progress, totalMark, totalPercent>>
       ELSE LET all_finished == AllFinished(sub_progresses, bars)
                closed == IF all_finished THEN BarFinish(Unwrap(total_progress))
                          ELSE BarAbandon(Unwrap(total_progress))
            IN /\ totalMark' = IF all_finished THEN "finished" ELSE "abandoned"
               /\ totalPercent' = Some(PercentKey(StyleState(closed)))
               /\ total_progress' = IF take THEN None ELSE Some(closed)
    /\ UNCHANGED <<transfers, sub_progresses, bars>>
    /\ ClrFrame

\* Downloader::clear, called when no transfer is running.
Clear ==
    /\ ~dropped
    /\ \A t \in Transfers : transfers[t].pc \in {"new", "returned"}
    /\ CleanUpTotalProgressBar(TRUE)

\* Drop for Downloader, when no transfer is running.
DropDownloader ==
    /\ ~dropped
    /\ \A t \in Transfers : transfers[t].pc \in {"new", "returned"}
    /\ CleanUpTotalProgressBar(FALSE)

NextClear ==
    \/ \E t \in Transfers : ~dropped /\ Register(t)
    \/ \E t \in Transfers, size \in 1..2, writeOk \in BOOLEAN :
          ~dropped /\ PbReadChunk(t, size, writeOk)
    \/ \E t \in Transfers : ~dropped /\ TransferFails(t)
    \/ \E t \in Transfers : ~dropped /\ EndOfBody(t)
    \/ \E t \in Transfers, ok \in BOOLEAN : ~dropped /\ Flush(t, ok)
    \/ \E t \in Transfers : ~dropped /\ Ffmpeg(t)
    \/ Clear
    \/ DropDownloader

SpecClear == InitClear /\ [][NextClear]_vars

(***************************************************************************)
(*   progress_downloads: concurrent download_to_file calls that open       *)
(*   their targets in one save directory                                   *)
(***************************************************************************)
MaxCoTasks == 2   \* transfers running concurrently
CoTaskIds == 1..MaxCoTasks

\* Output names get_episode_name yields for the tasks of a run.
CoNames == {"e1", "e2"}

\* The target path: the output name with ".ts" or ".mp4" pushed onto it.
CoPath(tk) == <<tk.output_name, IF tk.is_m3u8 THEN ".ts" ELSE ".mp4">>

\* target_path.with_extension("mp4")
WithExtensionMp4(path) == <<path[1], ".mp4">>

FileAt(fs, path) == {f \in fs : f.path = path}

\* OpenOptions::new().write(true).create(true).truncate(true).open(path)
create_truncate(fs, path, t) ==
    Some((fs \ FileAt(fs, path)) \cup {[path |-> path, owner |-> t, len |-> 0]})

\* OpenOptions::new().write(true).create_new(true).open(path): an error if
\* there is a file at the path.
create_new(fs, path, t) ==
    IF FileAt(fs, path) # {} THEN None
    ELSE Some(fs \cup {[path |-> path, owner |-> t, len |-> 0]})

\* A transfer that has opened its target and has not returned.
CoPastOpen(tk) == tk.pc \in {"body", "ffmpeg", "remove", "cleanup"}

CoFrame == UNCHANGED <<dmVars, grVars, pcVars, hlsVars, selVars, catVars, pbVars, styleVars, rcVars, rmxVars, dtfVars, retryVars, fmtVars, batchVars, clrVars>>

InitCo ==
    /\ \E names \in [CoTaskIds -> CoNames] :
          coTasks = [t \in CoTaskIds |->
                       [output_name |-> names[t], is_m3u8 |-> FALSE, pc |-> "queued",
                        wrote |-> 0, result |-> "none"]]
    /\ coFiles \in {{}, {[path |-> <<"e1", ".mp4">>, owner |-> 0, len |-> 1]}}
    /\ ffmpeg_installed \in BOOLEAN
    /\ max_concurrent = DmIdle.max_concurrent
    /\ senderOpen = DmIdle.senderOpen
    /\ sent = DmIdle.sent
    /\ rx_stream = DmIdle.rx_stream
    /\ streamDone = DmIdle.streamDone
    /\ inflight = DmIdle.inflight
    /\ startCount = DmIdle.startCount
    /\ returned = DmIdle.returned
    /\ warned = DmIdle.warned
    /\ dmPc = DmIdle.dmPc
    /\ tickPc = DmIdle.tickPc
    /\ client = GrIdle.client
    /\ referer = GrIdle.referer
    /\ last_url = GrIdle.last_url
    /\ redirect_count = GrIdle.redirect_count
    /\ grPc = GrIdle.grPc
    /\ grResult = GrIdle.grResult
    /\ response = GrIdle.response
    /\ transport = GrIdle.transport
    /\ wire = GrIdle.wire
    /\ serverRedirects = GrIdle.serverRedirects
    /\ redirectsSeen = GrIdle.redirectsSeen
    /\ seg = PcIdle.seg
    /\ pos = PcIdle.pos
    /\ decryptor = PcIdle.decryptor
    /\ written = PcIdle.written
    /\ segPc = PcIdle.segPc
    /\ segError = PcIdle.segError
    /\ playlist = HlsIdle.playlist
    /\ segPos = HlsIdle.segPos
    /\ segement_index = HlsIdle.segement_index
    /\ current_encryption = HlsIdle.current_encryption
    /\ keyFetches = HlsIdle.keyFetches
    /\ segLog = HlsIdle.segLog
    /\ hlsPc = HlsIdle.hlsPc
    /\ hlsError = HlsIdle.hlsError
    /\ hlsEntry = HlsIdle.hlsEntry
    /\ segRequests = HlsIdle.segRequests
    /\ doc = SelIdle.doc
    /\ served = SelIdle.served
    /\ highest_quality_variant = SelIdle.highest_quality_variant
    /\ media_playlist = SelIdle.media_playlist
    /\ segmentsFetched = SelIdle.segmentsFetched
    /\ selPc = SelIdle.selPc
    /\ selError = SelIdle.selError
    /\ media_segments = CatIdle.media_segments
    /\ segIdx = CatIdle.segIdx
    /\ requested = CatIdle.requested
    /\ chunkPos = CatIdle.chunkPos
    /\ segDecryptor = CatIdle.segDecryptor
    /\ output_stream = CatIdle.output_stream
    /\ downloaded_bytes = CatIdle.downloaded_bytes
    /\ catPc = CatIdle.catPc
    /\ catError = CatIdle.catError
    /\ transfers = PbIdle.transfers
    /\ sub_progresses = PbIdle.sub_progresses
    /\ bars = PbIdle.bars
    /\ total_progress = PbIdle.total_progress
    /\ state = StyleIdle.state
    /\ w = StyleIdle.w
    /\ borrowFlag = RcIdle.borrowFlag
    /\ running = RcIdle.running
    /\ rcTasks = RcIdle.rcTasks
    /\ panicked = RcIdle.panicked
    /\ ffmpeg_path = RmxIdle.ffmpeg_path
    /\ debug = RmxIdle.debug
    /\ rmxSegments = RmxIdle.rmxSegments
    /\ flushed = RmxIdle.flushed
    /\ ffmpeg_cmd = RmxIdle.ffmpeg_cmd
    /\ ffmpeg_result = RmxIdle.ffmpeg_result
    /\ disk = RmxIdle.disk
    /\ rmxLog = RmxIdle.rmxLog
    /\ rmxEntry = RmxIdle.rmxEntry
    /\ rmxPc = RmxIdle.rmxPc
    /\ rmxResult = RmxIdle.rmxResult
    /\ task = DtfIdle.task
    /\ response_url = DtfIdle.response_url
    /\ is_m3u8 = DtfIdle.is_m3u8
    /\ output_path = DtfIdle.output_path
    /\ message = DtfIdle.message
    /\ files = DtfIdle.files
    /\ files0 = DtfIdle.files0
    /\ dtfEntries = DtfIdle.dtfEntries
    /\ dtfPc = DtfIdle.dtfPc
    /\ dtfResult = DtfIdle.dtfResult
    /\ resStatus = RetryIdle.resStatus
    /\ retryable = RetryIdle.retryable
    /\ n_past_retries = RetryIdle.n_past_retries
    /\ handed = RetryIdle.handed
    /\ retryPc = RetryIdle.retryPc
    /\ episode_info = FmtIdle.episode_info
    /\ formatted = FmtIdle.formatted
    /\ episodes_request = BatchIdle.episodes_request
    /\ max_episodes = BatchIdle.max_episodes
    /\ episode = BatchIdle.episode
    /\ got_error = BatchIdle.got_error
    /\ scrapeWarned = BatchIdle.scrapeWarned
    /\ batchChannel = BatchIdle.batchChannel
    /\ transferWarned = BatchIdle.transferWarned
    /\ downloader_result = BatchIdle.downloader_result
    /\ fatal = BatchIdle.fatal
    /\ exit_status = BatchIdle.exit_status
    /\ dropped = ClrIdle.dropped
    /\ totalMark = ClrIdle.totalMark
    /\ totalPercent = ClrIdle.totalPercent

\* get_response returns (or fails), is_m3u8_url decides the kind, the
\* extension is pushed onto the output path.
CoRespond(t, ok, m3u8) ==
    /\ coTasks[t].pc = "queued"
    /\ coTasks' = [coTasks EXCEPT ![t] =
                     IF ok THEN [@ EXCEPT !.is_m3u8 = m3u8, !.pc = "open"]
                     ELSE [@ EXCEPT !.pc = "returned", !.result = "failed request"]]
    /\ UNCHANGED <<coFiles, ffmpeg_installed>>
    /\ CoFrame

\* The target is opened with create_new (overwrite_file is false for the
\* tasks of progress_downloads); an error is returned with `?`.
CoOpen(t) ==
    /\ coTasks[t].pc = "open"
    /\ LET r == create_new(coFiles, CoPath(coTasks[t]), t)
       IN IF r = None
          THEN /\ coTasks' = [coTasks EXCEPT ![t] =
                                [@ EXCEPT !.pc = "returned",
                                          !.result = "failed to open download target file"]]
               /\ UNCHANGED coFiles
          ELSE /\ coTasks' = [coTasks EXCEPT ![t] = [@ EXCEPT !.pc = "body"]]
               /\ coFiles' = Unwrap(r)
    /\ UNCHANGED ffmpeg_installed
    /\ CoFrame

\* A chunk is read and written through the handle of the opened file, or the
\* read or the write fails and the transfer returns the error.
CoReadChunk(t, ok) ==
    /\ coTasks[t].pc = "body"
    /\ coTasks[t].wrote < 1
    /\ IF ok
       THEN /\ coTasks' = [coTasks EXCEPT ![t] = [@ EXCEPT !.wrote = @ + 1]]
            /\ coFiles' = {IF f.owner = t THEN [f EXCEPT !.len = @ + 1] ELSE f : f \in coFiles}
       ELSE /\ coTasks' = [coTasks EXCEPT ![t] =
                             [@ EXCEPT !.pc = "returned", !.result = "failed download"]]
            /\ UNCHANGED coFiles
    /\ UNCHANGED ffmpeg_installed
    /\ CoFrame

\* The body has ended: simple_download returns Ok; m3u8_download goes on to
\* FFmpeg if it is installed and returns Ok otherwise.
CoEndOfBody(t) ==
    /\ coTasks[t].pc = "body"
    /\ coTasks' = [coTasks EXCEPT ![t] =
                     IF @.is_m3u8 /\ ffmpeg_installed
                     THEN [@ EXCEPT !.pc = "ffmpeg"]
                     ELSE [@ EXCEPT !.pc = "returned", !.result = "ok"]]
    /\ UNCHANGED <<coFiles, ffmpeg_installed>>
    /\ CoFrame

\* FFmpeg has been run on the raw file and has exited.  It is started with
\* -nostdin and without -y, so it exits with an error if its output file
\* exists; with exit code 0 it has written the .mp4.  Any other end is logged
\* and the transfer returns Ok without waiting for anything else.
CoFfmpeg(t, code) ==
    /\ coTasks[t].pc = "ffmpeg"
    /\ LET mp4 == WithExtensionMp4(CoPath(coTasks[t]))
       IN /\ code = 0 => FileAt(coFiles, mp4) = {}
          /\ IF code = 0
             THEN /\ coFiles' = coFiles \cup {[path |-> mp4, owner |-> 0, len |-> 1]}
                  /\ coTasks' = [coTasks EXCEPT ![t] = [@ EXCEPT !.pc = "remove"]]
             ELSE /\ UNCHANGED coFiles
                  /\ coTasks' = [coTasks EXCEPT ![t] =
                                   [@ EXCEPT !.pc = "returned", !.result = "ok"]]
    /\ UNCHANGED ffmpeg_installed
    /\ CoFrame

\* remove_file_ignore_not_exists(&target_path) takes effect (or fails, which
\* is only logged); the transfer is woken up later.
CoRemoveRaw(t, ok) ==
    /\ coTasks[t].pc = "remove"
    /\ coFiles' = IF ok THEN coFiles \ FileAt(coFiles, CoPath(coTasks[t])) ELSE coFiles
    /\ coTasks' = [coTasks EXCEPT ![t] = [@ EXCEPT !.pc = "cleanup"]]
    /\ UNCHANGED ffmpeg_installed
    /\ CoFrame

\* clean_up_progress_bar and Ok(()).
CoReturn(t) ==
    /\ coTasks[t].pc = "cleanup"
    /\ coTasks' = [coTasks EXCEPT ![t] = [@ EXCEPT !.pc = "returned", !.result = "ok"]]
    /\ UNCHANGED <<coFiles, ffmpeg_installed>>
    /\ CoFrame

NextCo ==
    \/ \E t \in CoTaskIds, ok \in BOOLEAN, m3u8 \in BOOLEAN : CoRespond(t, ok, m3u8)
    \/ \E t \in CoTaskIds : CoOpen(t)
    \/ \E t \in CoTaskIds, ok \in BOOLEAN : CoReadChunk(t, ok)
    \/ \E t \in CoTaskIds : CoEndOfBody(t)
    \/ \E t \in CoTaskIds, code \in {0, 1} : CoFfmpeg(t, code)
    \/ \E t \in CoTaskIds, ok \in BOOLEAN : CoRemoveRaw(t, ok)
    \/ \E t \in CoTaskIds : CoReturn(t)

SpecCo == InitCo /\ [][NextCo]_vars

(***************************************************************************)
(*                 Claims about progress_downloads                         *)
(***************************************************************************)

\* C1: with max_concurrent = Some(n) at most n download_to_file calls are in
\* flight at any moment; with max_concurrent = None nothing caps them: a
\* buffered task is started whatever the number of calls in flight.
C1_ConcurrencyCap ==
    /\ max_concurrent # None => Cardinality(InFlight) <= Unwrap(max_concurrent)
    /\ (max_concurrent = None /\ dmPc = "running" /\ ~streamDone /\ rx_stream # <<>>)
          => ENABLED StartTransfer

\* The cap bites: as many calls in flight as the limit allows, a task waiting.
C1_Witness ==
    /\ max_concurrent = Some(2)
    /\ Cardinality(InFlight) = 2
    /\ rx_stream # <<>>

\* C2: a download_to_file call that returns an error is only logged: the
\* other futures stay in flight at the step they were at, the stream and the
\* scheduler are untouched, and a buffered task can still be started.
C2_FailureIsolated ==
    /\ [][\A t \in Tasks :
            (t \in InFlight /\ returned[t] = "none" /\ returned'[t] = "err") =>
                /\ warned' = warned \cup {t}
                /\ DOMAIN inflight' = InFlight \ {t}
                /\ \A u \in InFlight \ {t} : inflight'[u] = inflight[u]
                /\ rx_stream' = rx_stream
                /\ streamDone' = streamDone
                /\ dmPc' = "running"]_vars
    /\ []((warned # {} /\ dmPc = "running" /\ ~streamDone /\ rx_stream # <<>>
             /\ UnderLimit(max_concurrent, Cardinality(InFlight)))
            => ENABLED StartTransfer)

\* Under a limit of one, task 2 was started after task 1 had failed, and
\* returned success.
C2_Witness ==
    /\ max_concurrent = Some(1)
    /\ returned[1] = "err" /\ 1 \in warned
    /\ returned[2] = "ok"

\* C3: if the sender is eventually dropped and every started transfer
\* eventually returns (the fairness of SpecDMFair), progress_downloads
\* eventually returns; it returns only when every task sent has been passed
\* to download_to_file exactly once and that call has returned; no task is
\* ever passed twice; the tick branch never completes.
C3_ReturnsWhenDrained ==
    /\ [](dmPc = "returned" =>
            /\ ~senderOpen /\ rx_stream = <<>> /\ InFlight = {}
            /\ \A t \in 1..sent : startCount[t] = 1 /\ returned[t] # "none")
    /\ [](\A t \in Tasks : startCount[t] <= 1)
    /\ [](dmPc # "unreachable" /\ tickPc # "finished")
    /\ <>(dmPc = "returned")

\* progress_downloads has returned after every task was sent, one of them
\* having failed.
C3_Witness ==
    /\ dmPc = "returned"
    /\ sent = MaxTasks
    /\ warned # {}
    /\ \E t \in Tasks : returned[t] = "ok"

(***************************************************************************)
(*                 Claims about get_response                               *)
(***************************************************************************)

C6_NoAutoFollow ==
    /\ \A r \in wire : r.by = "get_response"
    /\ serverRedirects = redirectsSeen

(***************************************************************************)
(*                 Claims about process_chunk                              *)
(***************************************************************************)

\* C7: for every plaintext, key and IV, the AES-128-CBC + PKCS7 ciphertext
\* of a segment fed through process_chunk in any split into non-empty chunks
\* and then flushed writes exactly the plaintext, and neither the unpadding
\* nor the block check fails on the way.
C7_RoundTrip ==
    /\ (seg.method = "AES-128" /\ seg.shape = "good" /\ segPc = "flushed")
          => written = seg.plain
    /\ (seg.method = "AES-128" /\ seg.shape = "good")
          => segError \notin {"failed to unpad data", "decryption blocks have tail"}

\* A 17-byte plaintext of bytes that look like padding, two blocks of
\* ciphertext, written back whole.
C7_Witness ==
    /\ seg.method = "AES-128" /\ seg.shape = "good"
    /\ segPc = "flushed"
    /\ Len(seg.plain) = BlockSize + 1
    /\ seg.plain[BlockSize + 1] = 1
    /\ written = seg.plain

\* C8: a malformed AES-128 segment is rejected: one that was processed to
\* the end without error had valid PKCS7 padding in its last decrypted block
\* and left no bytes over that do not form a 16-byte block.
C8_MalformedRejected ==
    (seg.method = "AES-128" /\ segPc = "flushed") =>
        /\ Len(seg.data) % BlockSize = 0
        /\ decryptor.rest_to_decrypt = <<>>
        /\ Pkcs7UnpadLen(CbcDecrypt(seg.key, seg.iv, seg.data)) >= 0

(***************************************************************************)
(*                 Claims about the segment loop                           *)
(***************************************************************************)

\* C9: every encrypted segment whose key tag (its own or the one it
\* inherits) carries no IV gets a decryptor initialised with its absolute
\* sequence number, media_sequence + position, as 16 big-endian bytes.
C9_DefaultIvIsSequenceNumber ==
    \A i \in 1..Len(segLog) :
        LET j == LastTagPos(i) IN
        (segLog[i].kind = "Aes128" /\ j > 0
           /\ Unwrap(playlist.segments[j].key).iv = None)
          => segLog[i].iv = ToBeBytes(playlist.media_sequence + (i - 1))

\* The second segment inherits the key of the first, whose tag has no IV, in
\* a playlist that starts at sequence number 258: its IV is 259, bytes 1, 3.
C9_Witness ==
    /\ playlist.media_sequence = 258
    /\ Len(segLog) >= 2
    /\ playlist.segments[1].key = Some([method |-> "AES-128", iv |-> None, uri |-> Some("k2")])
    /\ playlist.segments[2].key = None
    /\ segLog[2].kind = "Aes128"
    /\ segLog[2].iv = [i \in Blocks16 |-> IF i = 15 THEN 1 ELSE IF i = 16 THEN 3 ELSE 0]

\* C10: encryption is sticky: a segment is decrypted with the key of the
\* last key tag at or before it when that tag is AES-128, whether the tag is
\* its own or an earlier segment's, and passed through when that tag is NONE
\* or when there is none.
C10_StickyEncryption ==
    \A i \in 1..Len(segLog) :
        LET j == LastTagPos(i) IN
        IF j = 0 THEN segLog[i].kind = "None"
        ELSE LET tag == Unwrap(playlist.segments[j].key) IN
             IF tag.method = "NONE" THEN segLog[i].kind = "None"
             ELSE /\ tag.method = "AES-128"
                  /\ segLog[i].kind = "Aes128"
                  /\ segLog[i].key = KeyBody(Unwrap(tag.uri))

\* Key on the first segment, inherited by the second, switched off by a
\* NONE tag on the third.
C10_Witness ==
    /\ Len(segLog) = 3
    /\ playlist.segments[1].key # None
    /\ playlist.segments[2].key = None
    /\ playlist.segments[3].key = Some([method |-> "NONE", iv |-> None, uri |-> None])
    /\ segLog[1].kind = "Aes128" /\ segLog[2].kind = "Aes128"
    /\ segLog[2].key = segLog[1].key
    /\ segLog[3].kind = "None"

(***************************************************************************)
(*                 Claims about the playlist resolution                    *)
(***************************************************************************)

\* Variant a is strictly better than variant b under the order (resolution
\* area, then average_bandwidth, then bandwidth): the first criterion both
\* variants state and differ in decides.
Beats(a, b) ==
    IF /\ a.resolution # None /\ b.resolution # None
       /\ Pixels(Unwrap(a.resolution)) # Pixels(Unwrap(b.resolution))
    THEN Pixels(Unwrap(a.resolution)) > Pixels(Unwrap(b.resolution))
    ELSE IF /\ a.average_bandwidth # None /\ b.average_bandwidth # None
            /\ Unwrap(a.average_bandwidth) # Unwrap(b.average_bandwidth)
    THEN Unwrap(a.average_bandwidth) > Unwrap(b.average_bandwidth)
    ELSE a.bandwidth > b.bandwidth

NonIFrame(vs) == {vs[i] : i \in {j \in 1..Len(vs) : ~vs[j].is_i_frame}}

\* C11: once a master playlist is parsed, the transfer has failed if the
\* variant list is empty or all I-frame; otherwise the selected variant is
\* not an I-frame variant and no other non-I-frame variant is better under
\* (resolution area, average_bandwidth, bandwidth), all descending.
C11_BestVariantSelected ==
    (doc.kind = "master" /\ selPc # "parse") =>
        IF NonIFrame(doc.variants) = {}
        THEN selError \in {"could not find any media playlists",
                           "could not find a non-iframe media playlist"}
        ELSE /\ highest_quality_variant # None
             /\ ~Unwrap(highest_quality_variant).is_i_frame
             /\ \A v \in NonIFrame(doc.variants) :
                    ~Beats(v, Unwrap(highest_quality_variant))

\* C12: no segment is ever requested from a media playlist that has
\* i_frames_only set, whether it is the document itself or the playlist of
\* the selected variant.
C12_NoIFramePlaylistDownloaded ==
    segmentsFetched > 0 => ~Unwrap(media_playlist).i_frames_only

(***************************************************************************)
(*                 Claims about the target file                            *)
(***************************************************************************)

\* The plaintexts of the first n segments, one after the other.
RECURSIVE PlainUpTo(_)
PlainUpTo(n) == IF n = 0 THEN <<>> ELSE PlainUpTo(n - 1) \o media_segments[n].plain

IsPrefix(a, b) == Len(a) <= Len(b) /\ SubSeq(b, 1, Len(a)) = a

\* C13: the segments are requested one at a time in playlist order; when a
\* segment is requested every byte of the segments before it is in the
\* file, and nothing else; on success the file is the concatenation of the
\* plaintexts of all segments in playlist order.
C13_SegmentsInOrder ==
    /\ requested = [i \in 1..Len(requested) |-> i]
    /\ Len(requested) >= 1 =>
          /\ IsPrefix(PlainUpTo(Len(requested) - 1), output_stream)
          /\ IsPrefix(output_stream, PlainUpTo(Len(requested)))
    /\ catPc \in {"fetch", "finish", "done"} => output_stream = PlainUpTo(segIdx - 1)
    /\ catPc = "done" => output_stream = PlainUpTo(Len(media_segments))

\* A transfer of an encrypted segment followed by one without encryption
\* has succeeded.
C13_Witness ==
    /\ catPc = "done"
    /\ Len(media_segments) = 2
    /\ media_segments[1].method = "AES-128" /\ Len(media_segments[1].plain) = 16
    /\ media_segments[2].method = "NONE" /\ Len(media_segments[2].plain) = 5
    /\ requested = <<1, 2>>
    /\ output_stream = media_segments[1].plain \o media_segments[2].plain

(***************************************************************************)
(*                 Claims about the progress registry                      *)
(***************************************************************************)

\* The entry of a transfer that has registered.
EntryOf(t) == sub_progresses[transfers[t].index]
Registered(t) == transfers[t].index > 0

\* Position and known length of entry i, read off the entry's state.
PositionOf(i) ==
    IF sub_progresses[i].kind = "ProgressBar" THEN bars[i].pos
    ELSE IF sub_progresses[i].kind = "Abandoned" THEN sub_progresses[i].position
    ELSE sub_progresses[i].length
LengthOf(i) ==
    IF sub_progresses[i].kind = "ProgressBar" THEN bars[i].len
    ELSE IF sub_progresses[i].kind = "Abandoned" THEN sub_progresses[i].length
    ELSE Some(sub_progresses[i].length)

RECURSIVE SumOver(_, _)
SumOver(f, n) == IF n = 0 THEN 0 ELSE SumOver(f, n - 1) + f[n]

\* A sum of u64 values, as the u64 that holds it.
AsU64(n) == IF n > U64Max THEN U64Max ELSE n

Entries == 1..Len(sub_progresses)
SumOfPositions == AsU64(SumOver([i \in Entries |-> PositionOf(i)], Len(sub_progresses)))
SumOfKnownLengths ==
    AsU64(SumOver([i \in Entries |-> IF LengthOf(i) = None THEN 0 ELSE Unwrap(LengthOf(i))],
                  Len(sub_progresses)))

\* The bytes a successful transfer writes to its file.
BodyBytes(t) ==
    SumOver(transfers[t].input.sizes, Len(transfers[t].input.sizes))

\* C14: an entry that is Finished or Abandoned is never changed again, and
\* entries are never removed: the only change of an entry is the one from
\* Active (ProgressBar) to Finished or Abandoned.
C14_EntryChangesOnce ==
    [][/\ Len(sub_progresses') >= Len(sub_progresses)
       /\ \A i \in Entries :
             sub_progresses[i].kind # "ProgressBar"
                => sub_progresses'[i] = sub_progresses[i]]_vars

\* Both transfers have returned, one entry Abandoned and one Finished.
C14_Witness ==
    /\ \A t \in Transfers : transfers[t].pc = "returned"
    /\ \E i, j \in Entries :
          sub_progresses[i].kind = "Abandoned" /\ sub_progresses[j].kind = "Finished"

\* C15: a registered transfer that has returned an error has an Abandoned
\* entry, and a Finished entry belongs to a transfer that returned success.
C15_ErrorMeansAbandoned ==
    \A t \in Transfers :
        (Registered(t) /\ transfers[t].pc = "returned") =>
            /\ transfers[t].result = "err" => EntryOf(t).kind = "Abandoned"
            /\ EntryOf(t).kind = "Finished" => transfers[t].result = "ok"

\* C16: a transfer that returned success has a Finished entry whose length
\* is the number of bytes written, and its bar stands at that position and
\* length, whatever the Content-Length said.
C16_FinishedLengthIsTotal ==
    \A t \in Transfers :
        transfers[t].result = "ok" =>
            /\ EntryOf(t) = [kind |-> "Finished", length |-> BodyBytes(t)]
            /\ bars[transfers[t].index].pos = BodyBytes(t)
            /\ bars[transfers[t].index].len = Some(BodyBytes(t))

\* Successful simple transfers: one without Content-Length, one whose
\* Content-Length was too large.
C16_Witness ==
    /\ \A t \in Transfers : transfers[t].result = "ok"
    /\ \E t \in Transfers : transfers[t].input.content_length = None
                            /\ transfers[t].input.kind = "simple"
    /\ \E t \in Transfers : transfers[t].input.content_length = Some(3)

UnknownActive(i) ==
    /\ sub_progresses[i].kind = "ProgressBar"
    /\ \E t \in Transfers :
          /\ transfers[t].index = i
          /\ transfers[t].pc = "read"
          /\ \/ transfers[t].input.kind = "simple" /\ transfers[t].input.content_length = None
             \/ transfers[t].input.kind = "hls" /\ transfers[t].estimation = None

IsHls(i) == \E t \in Transfers : transfers[t].index = i /\ transfers[t].input.kind = "hls"

C19_LengthAtLeastPosition ==
    \A i \in Entries :
        /\ bars[i].len # None /\ Unwrap(bars[i].len) >= bars[i].pos
        /\ LengthOf(i) # None => Unwrap(LengthOf(i)) >= PositionOf(i)

\* A simple transfer with Content-Length 1 has downloaded 2 bytes.
C19_Witness ==
    \E t \in Transfers :
        /\ transfers[t].input.content_length = Some(1)
        /\ transfers[t].pc = "read"
        /\ bars[transfers[t].index] = [pos |-> 2, len |-> Some(2), status |-> "InProgress"]

(***************************************************************************)
(*                 Claims about the progress style                         *)
(***************************************************************************)

SumsNow ==
    [pos |-> TotalDownloaded(sub_progresses, bars, Len(sub_progresses)),
     len |-> Some(TotalLength(sub_progresses, bars, Len(sub_progresses))),
     message |-> <<TotalFinished(sub_progresses, bars), Len(sub_progresses)>>]

NextOp(t) == Head(rcTasks[t].code).op

\* C21: the shared cells of the registry are never borrowed conflictingly.
\* No borrow()/borrow_mut() panics; whenever every future is at an await
\* both RefCells are free (no borrow is held across a suspension point);
\* the sums a recomputation writes to the aggregate bar are the sums of the
\* entries as they are at that moment (one consistent snapshot); and the
\* position a clean-up stores in its entry is the position its bar has at
\* that moment (no other task came in between the read and the write).
C21_NoBorrowConflict ==
    /\ ~panicked
    /\ running = None =>
          borrowFlag.sub_progresses = 0 /\ borrowFlag.total_progress = 0
    /\ \A t \in RcTasks :
          rcTasks[t].code # <<>> =>
             /\ Head(rcTasks[t].code) = Op("update", "total_progress") =>
                   rcTasks[t].sums = SumsNow
             /\ NextOp(t) \in {"Finished", "Abandoned"} =>
                   rcTasks[t].position = bars[rcTasks[t].index].pos

\* A transfer holds the mutable borrow of the entry list to store its
\* result while the other transfer is in its read loop with an entry of
\* its own and the aggregate bar exists: the tasks do run concurrently.
C21_Witness ==
    /\ ~panicked
    /\ borrowFlag.sub_progresses = 0 - 1
    /\ total_progress # None
    /\ \E t, u \in RcTransfers :
          /\ t # u
          /\ running = Some(t)
          /\ rcTasks[t].code # <<>> /\ NextOp(t) = "Finished"
          /\ rcTasks[u].pc = "read" /\ rcTasks[u].downloaded = 1
          /\ sub_progresses[rcTasks[u].index].kind = "ProgressBar"

(***************************************************************************)
(*                 Claims about the end of an HLS transfer                 *)
(***************************************************************************)
\* The transfer reached the remux step: every segment written, the file
\* flushed and synced.
ReachedRemux == flushed /\ rmxSegments.written = rmxSegments.count

\* C22: the outcome of the remux step never changes the result of an HLS
\* transfer.  A transfer that reached the remux step and has returned has
\* returned Ok with its entry Finished, whether FFmpeg was absent, could not
\* be spawned, could not be waited for, exited with a non-zero code, was
\* terminated by a signal or exited with 0.
C22_RemuxNeverFails ==
    (rmxPc = "returned" /\ ReachedRemux) =>
        rmxResult = "ok" /\ rmxEntry = "Finished"

\* FFmpeg was terminated by a signal, and the transfer has returned.
C22_Witness ==
    /\ rmxPc = "returned"
    /\ ReachedRemux
    /\ ffmpeg_result = Some([wait |-> "Ok", code |-> None])
    /\ "FFmpeg failed due to signal termination" \in rmxLog
    /\ rmxResult = "ok"

\* FFmpeg was run and exited with code 0.
RanWithSuccess == ffmpeg_result = Some([wait |-> "Ok", code |-> Some(0)])

\* C23, as stated: after an HLS transfer the raw file has been deleted if and
\* only if FFmpeg was run and exited with code 0.
C23_RawDeletedIffSuccess ==
    rmxPc = "returned" => ("ts" \notin disk <=> RanWithSuccess)

\* C23, amended: the raw file has been deleted only if FFmpeg was run and
\* exited with code 0, and then it has been deleted unless the removal
\* failed, which is logged; after every other outcome it is still on disk.
C23_RawDeletedOnlyOnSuccess ==
    rmxPc = "returned" =>
        /\ "ts" \notin disk => RanWithSuccess
        /\ (RanWithSuccess /\ "ts" \in disk) =>
              "Failed to delete temporary input file for FFmpeg" \in rmxLog

\* FFmpeg exited with 0 and the raw file is gone.
C23_Witness ==
    /\ rmxPc = "returned"
    /\ RanWithSuccess
    /\ "ts" \notin disk
    /\ rmxLog = {}

\* C30: FFmpeg is invoked only after every segment of the playlist has been
\* written and the raw file has been flushed and synced; a transfer that
\* fails at an earlier step never invokes it.
C30_RemuxAfterFlush ==
    /\ ffmpeg_cmd # None =>
          /\ Unwrap(ffmpeg_cmd).written = rmxSegments.count
          /\ Unwrap(ffmpeg_cmd).flushed
          /\ Unwrap(ffmpeg_cmd).result = "none"
    /\ rmxResult = "err" => ffmpeg_cmd = None

\* FFmpeg has been spawned for a playlist of two segments.
C30_Witness ==
    /\ ffmpeg_cmd # None
    /\ rmxSegments = [count |-> 2, written |-> 2]
    /\ flushed
    /\ rmxPc = "wait"

(***************************************************************************)
(*                 Claims about download_to_file                           *)
(***************************************************************************)
\* The segment is a non-empty stem followed by ".m3u8" or ".m3u" in any case.
HasPlaylistSuffix(s) ==
    \/ /\ Len(s) > 5
       /\ s[Len(s) - 4] = "."
       /\ s[Len(s) - 3] \in {"m", "M"}
       /\ s[Len(s) - 2] = "3"
       /\ s[Len(s) - 1] \in {"u", "U"}
       /\ s[Len(s)] = "8"
    \/ /\ Len(s) > 4
       /\ s[Len(s) - 3] = "."
       /\ s[Len(s) - 2] \in {"m", "M"}
       /\ s[Len(s) - 1] = "3"
       /\ s[Len(s)] \in {"u", "U"}

\* The target file has been opened.
Opened ==
    \/ dtfPc \in {"simple_download", "m3u8_download", "body"}
    \/ dtfResult \in {"ok", "playlist", "failed download"}

OutputName == Unwrap(Unwrap(output_path).file_name)

\* C24: with overwrite = false, if the output path (after the extension
\* rule) already exists, download_to_file fails with an open error, leaves
\* the files as they were and registers no progress entry; with overwrite =
\* true the file is created or truncated: right after the open it is empty.
C24_NoOverwriteUnlessAsked ==
    /\ ( /\ dtfPc \notin {"get_response", "open"}
         /\ output_path # None
         /\ Unwrap(output_path).file_name # None
         /\ ~task.overwrite_file
         /\ OutputName \in DOMAIN files0 )
       => /\ dtfPc = "returned"
          /\ dtfResult = "failed to open download target file"
          /\ files = files0
          /\ dtfEntries = 0
    /\ (task.overwrite_file /\ dtfPc \in {"simple_download", "m3u8_download"})
       => /\ OutputName \in DOMAIN files
          /\ files[OutputName] = <<>>

\* Without overwrite the open of an existing file has failed.
C24_Witness ==
    /\ dtfPc = "returned"
    /\ ~task.overwrite_file
    /\ output_path # None
    /\ Unwrap(output_path).file_name = Some(<<"e">> \o DotTs)
    /\ <<"e">> \o DotTs \in DOMAIN files0
    /\ dtfResult = "failed to open download target file"

\* C25: a transfer takes the HLS path exactly when the last path segment of
\* the final response URL ends, whatever the case, with ".m3u8" or ".m3u"
\* after a non-empty stem, otherwise the simple path; and when the caller
\* supplied no extension the name of the file that is opened is the task's
\* file name followed by ".ts" for HLS and by ".mp4" for simple.
C25_KindFromFinalUrl ==
    /\ is_m3u8 # None => (Unwrap(is_m3u8) <=> HasPlaylistSuffix(response_url))
    /\ dtfPc \in {"m3u8_download", "body"} => HasPlaylistSuffix(response_url)
    /\ dtfPc = "simple_download" => ~HasPlaylistSuffix(response_url)
    /\ (Opened /\ ~task.output_path_has_extension) =>
          OutputName = Unwrap(task.output_path.file_name)
                          \o (IF HasPlaylistSuffix(response_url) THEN DotTs ELSE DotMp4)

\* A task whose URL ends with .mp4 is answered, after redirects, from a URL
\* ending with .M3U8: it takes the HLS path and its file is named e.ts.
C25_Witness ==
    /\ dtfPc = "m3u8_download"
    /\ task.url = <<"a">> \o DotMp4
    /\ response_url = <<"A", ".", "M", "3", "U", "8">>
    /\ ~task.output_path_has_extension
    /\ OutputName = <<"e">> \o DotTs

(***************************************************************************)
(*                 Claims about the retry strategy                         *)
(***************************************************************************)
RetriedStatuses  == (500..599) \cup {408, 429}
HandedStatuses   == (200..299) \cup {301, 302, 303, 307, 308}

\* C26: the retry strategy classifies a received response as Transient
\* exactly when its status is 5xx, 408 or 429, as Fatal for every other 4xx
\* status, and as neither for 2xx and for the redirect statuses 301, 302,
\* 303, 307 and 308; a response that is not Transient is never retried, and
\* one that is neither is handed to the caller.
C26_Classification ==
    /\ [](retryable # "unset" =>
             /\ retryable = "Transient" <=> resStatus \in RetriedStatuses
             /\ resStatus \in (400..499) \ {408, 429} => retryable = "Fatal"
             /\ resStatus \in HandedStatuses => retryable = "None")
    /\ []((retryPc = "done" /\ resStatus \in HandedStatuses) =>
             handed = Some(resStatus))
    /\ [][(retryPc = "handled" /\ resStatus \notin RetriedStatuses) =>
             (retryPc' = "done" /\ n_past_retries' = n_past_retries)]_vars

\* A 503 was retried, the retry was answered with a 302, and the 302 has
\* been handed to the caller.
C26_Witness ==
    /\ retryPc = "done"
    /\ n_past_retries = 1
    /\ resStatus = 302
    /\ handed = Some(302)

(***************************************************************************)
(*                 Claims about unsupported key methods                    *)
(***************************************************************************)
\* The segment at position i has a key tag with a method other than
\* AES-128 and NONE.
Unsupported(i) ==
    /\ playlist.segments[i].key # None
    /\ Unwrap(playlist.segments[i].key).method \notin {"AES-128", "NONE"}

\* The 'not implemented' error that names the method.
NamesMethod(method) ==
    CASE method = "SAMPLE-AES" -> "m3u8 SAMPLE-AES decryption not implemented"
      [] method = "AES-256" -> "m3u8 \"AES-256\" decryption not implemented"
      [] method = "OTHER" -> "m3u8 \"OTHER\" decryption not implemented"

\* C27: a key tag whose method is SAMPLE-AES or any other method than
\* AES-128 and NONE makes the HLS transfer fail with a 'not implemented'
\* error naming the method; the entry is Abandoned and neither that segment
\* nor any later segment is fetched.
C27_UnsupportedMethodFails ==
    \A i \in 1..Len(playlist.segments) :
        Unsupported(i) =>
            /\ segPos <= i
            /\ \A k \in 1..Len(segRequests) : segRequests[k] < i
            /\ (segPos = i /\ hlsPc # "key") =>
                  /\ hlsPc = "error"
                  /\ hlsError = NamesMethod(Unwrap(playlist.segments[i].key).method)
                  /\ hlsEntry = "Abandoned"

\* The first segment was fetched; the second has an AES-256 key tag and the
\* transfer has failed at it.
C27_Witness ==
    /\ Len(playlist.segments) = 3
    /\ Unsupported(2)
    /\ Unwrap(playlist.segments[2].key).method = "AES-256"
    /\ segRequests = <<1>>
    /\ hlsPc = "error"
    /\ hlsEntry = "Abandoned"

(***************************************************************************)
(*                 Claims about the episode number                         *)
(***************************************************************************)
\* Number of decimal digits of n.
DecimalDigits(n) ==
    IF n < 10 THEN 1 ELSE IF n < 100 THEN 2 ELSE IF n < 1000 THEN 3 ELSE 4

\* The number a string of digits spells.
RECURSIVE ValueOf(_)
ValueOf(s) ==
    IF s = <<>> THEN 0
    ELSE 10 * ValueOf(SubSeq(s, 1, Len(s) - 1))
         + (CHOOSE d \in 0..9 : DigitChars[d + 1] = s[Len(s)])

\* C28: for a numeric episode number n and a season maximum m, the formatted
\* episode string is n zero-padded to width max(2, number of decimal digits
\* of m), width 2 when m is unknown, and is never truncated.
C28_PaddedToSeasonWidth ==
    (formatted # None /\ episode_info.episode_number.kind = "Number") =>
        LET n == episode_info.episode_number.value
            max == episode_info.max_episode_number_in_season
            width == IF max = None THEN 2 ELSE Max(2, DecimalDigits(Unwrap(max)))
            out == Unwrap(formatted)
        IN /\ AllDigits(out)
           /\ ValueOf(out) = n
           /\ Len(out) = Max(width, DecimalDigits(n))

(***************************************************************************)
(*                 Claims about the exit code in batch mode                *)
(***************************************************************************)
\* C29: in batch mode the failure of single episodes does not change the
\* exit code: the process exits with a non-zero status only after a
\* condition outside the episodes (the series info, the season's page), and
\* with status 0 otherwise, whatever happened to the episodes.
C29_EpisodeFailuresKeepExitCode ==
    exit_status # None =>
        (Unwrap(exit_status) # 0 <=> fatal # None)

(***************************************************************************)
(*              Claims about the key requests of one HLS transfer          *)
(***************************************************************************)
\* The segments whose key block has run.
KeyBlocksRun ==
    {i \in 1..Len(playlist.segments) : i < segPos \/ (i = segPos /\ hlsPc # "key")}

\* The key tags among them that reached the key request: the encryption
\* specifications (method, key URI, IV) the transfer has met.
SpecsMet ==
    {Unwrap(playlist.segments[i].key) :
        i \in {j \in KeyBlocksRun : /\ playlist.segments[j].key # None
                                    /\ KeyTagCheck(Unwrap(playlist.segments[j].key)).encrypt}}

\* C31: within one HLS transfer the key of each distinct encryption
\* specification is requested exactly once, so there are as many key requests
\* as distinct specifications met, and a segment without a key tag causes
\* no key request.
C31_KeyFetchedOncePerSpec ==
    Len(keyFetches) = Cardinality(SpecsMet)

(***************************************************************************)
(*          Claims about positions over time and the abandoned entries     *)
(***************************************************************************)
\* The sums update_progress_total would compute from the registry as it is.
SumDownloadedNow == TotalDownloaded(sub_progresses, bars, Len(sub_progresses))
SumLengthNow == TotalLength(sub_progresses, bars, Len(sub_progresses))

\* C32: the position of every entry, the sum of the positions and the
\* position of the aggregate bar never decrease; the step that abandons an
\* entry leaves its position and its length, and so both sums, as they were.
C32_PositionsNeverDecrease ==
    [][/\ Len(sub_progresses') >= Len(sub_progresses)
       /\ \A i \in 1..Len(sub_progresses) :
             /\ EntryPosition(sub_progresses'[i], bars'[i])
                   >= EntryPosition(sub_progresses[i], bars[i])
             /\ (sub_progresses'[i].kind = "Abandoned"
                    /\ sub_progresses[i].kind # "Abandoned")
                => /\ EntryPosition(sub_progresses'[i], bars'[i])
                         = EntryPosition(sub_progresses[i], bars[i])
                   /\ EntryLength(sub_progresses'[i], bars'[i])
                         = EntryLength(sub_progresses[i], bars[i])
                   /\ SumDownloadedNow' = SumDownloadedNow
                   /\ SumLengthNow' = SumLengthNow
       /\ SumDownloadedNow' >= SumDownloadedNow
       /\ total_progress # None
          => /\ total_progress' # None
             /\ Unwrap(total_progress').pos >= Unwrap(total_progress).pos]_vars

\* An entry was abandoned after it had read something, the other transfer
\* went on to finish, and the aggregate counts both.
C32_Witness ==
    /\ \E i \in 1..Len(sub_progresses) :
          /\ sub_progresses[i].kind = "Abandoned"
          /\ sub_progresses[i].position > 0
    /\ \E i \in 1..Len(sub_progresses) : sub_progresses[i].kind = "Finished"
    /\ total_progress # None
    /\ Unwrap(total_progress).pos = SumDownloadedNow

(***************************************************************************)
(*             Claims about the unwraps of update_progress_total           *)
(***************************************************************************)
\* What the three unwraps of update_progress_total need of the registry:
\* an entry to reduce the positions over, an entry with a length to reduce
\* the lengths over, and the aggregate bar.
UnwrapsHold(entries, bs, tot) ==
    /\ Len(entries) > 0
    /\ \E i \in 1..Len(entries) : EntryLength(entries[i], bs[i]) # None
    /\ tot # None

\* C33: the aggregate bar exists exactly if an entry is registered, every
\* registry with an entry has an entry with a length, and whenever the
\* aggregate is recomputed the registry has an entry, so none of the unwraps
\* of update_progress_total fails, whatever the transfers do.
C33_UnwrapsNeverFail ==
    /\ [](total_progress = None <=> sub_progresses = <<>>)
    /\ [](sub_progresses # <<>> => UnwrapsHold(sub_progresses, bars, total_progress))
    /\ [][total_progress' # total_progress
          => UnwrapsHold(sub_progresses', bars', total_progress')]_vars

\* Both transfers have registered and returned, one with an error and one
\* without, and the aggregate says so.
C33_Witness ==
    /\ \A t \in Transfers : transfers[t].pc = "returned"
    /\ \E t \in Transfers : transfers[t].result = "err"
    /\ \E t \in Transfers : transfers[t].result = "ok"
    /\ Len(sub_progresses) = MaxTransfers
    /\ total_progress # None
    /\ Unwrap(total_progress).message[2] = MaxTransfers

(***************************************************************************)
(*          Claims about the target file when download_to_file fails       *)
(***************************************************************************)
\* C34: the target file is opened only after the first request has been
\* answered: a task whose URL does not parse, or whose first request fails,
\* leaves every file as it was (none created, none truncated), and the
\* files change only in the open step and the steps after it.
C34_NoFileBeforeResponse ==
    /\ [](url_parse(task.url) = None => files = files0)
    /\ [](dtfResult \in {"failed to parse URL", "request failed"} => files = files0)
    /\ [][files' # files
          => /\ dtfPc \in {"open", "simple_download", "body"}
             /\ is_m3u8 # None]_vars

\* The first request of a task that may overwrite has failed, and the file
\* its target would have been is on disk.
C34_Witness ==
    /\ dtfPc = "returned"
    /\ dtfResult = "request failed"
    /\ task.overwrite_file
    /\ task.output_path.file_name = Some(<<"e">> \o DotMp4)
    /\ task.output_path_has_extension
    /\ <<"e">> \o DotMp4 \in DOMAIN files
    /\ files[<<"e">> \o DotMp4] = Old

\* C39: download_to_file does not remove its target on failure: once the
\* file has been opened, an error of m3u8_download or simple_download leaves
\* it on disk at the output path, empty or with the part written so far.
C39_TargetKeptOnFailure ==
    (dtfPc = "returned" /\ dtfResult \in {"playlist", "failed download"})
    => /\ OutputName \in DOMAIN files
       /\ files[OutputName] \in {<<>>, <<"n">>}

\* An HLS transfer has failed after a part of the body was written.
C39_Witness ==
    /\ dtfPc = "returned"
    /\ dtfResult = "failed download"
    /\ is_m3u8 = Some(TRUE)
    /\ OutputName \notin DOMAIN files0
    /\ OutputName \in DOMAIN files
    /\ files[OutputName] = <<"n">>

(***************************************************************************)
(*             Claims about the entry of a transfer that returned          *)
(***************************************************************************)
\* C35: when simple_download or m3u8_download has returned, with Ok or with
\* an error, after it registered an entry, the entry is Finished or
\* Abandoned and its bar is done: no return leaves it a running bar.
C35_ReturnedMeansNotActive ==
    \A t \in Transfers :
        (transfers[t].pc = "returned" /\ transfers[t].index > 0)
        => /\ sub_progresses[transfers[t].index].kind \in {"Finished", "Abandoned"}
           /\ BarIsFinished(bars[transfers[t].index])

\* Both transfers returned an error: one from the loop, its entry
\* Abandoned, the other from the flush, its entry Finished.
C35_Witness ==
    /\ \A t \in Transfers : transfers[t].pc = "returned" /\ transfers[t].result = "err"
    /\ \E t \in Transfers : sub_progresses[transfers[t].index].kind = "Abandoned"
    /\ \E t \in Transfers : sub_progresses[transfers[t].index].kind = "Finished"

(***************************************************************************)
(*         Claims about process_chunk and the way the bytes arrive         *)
(***************************************************************************)
\* The outcome of a segment whose bytes arrive as one chunk: the bytes
\* written, or the error process_chunk bails with.
WholeOutcome(s) ==
    LET d0 == NewDecryptor(s.method, s.iv)
        r1 == ChunkToWrite(s.key, d0, Some(s.data))
        r2 == ChunkToWrite(s.key, IF Len(s.data) = 0 THEN d0 ELSE r1.decryptor, None)
        first == IF Len(s.data) = 0 \/ r1.write = None THEN <<>> ELSE Unwrap(r1.write)
    IN IF Len(s.data) # 0 /\ r1.error # "none" THEN [error |-> r1.error, written |-> <<>>]
       ELSE IF r2.error # "none" THEN [error |-> r2.error, written |-> <<>>]
       ELSE [error |-> "none",
             written |-> first \o (IF r2.write = None THEN <<>> ELSE Unwrap(r2.write))]

\* The errors that are the segment's, not the connection's or the disk's.
DecryptErrors == {"decryption blocks have tail", "failed to unpad data"}

\* C36: the outcome of an AES-128 segment does not depend on how its bytes
\* are split into chunks: whatever the chunks, a segment processed to the
\* end has written what it writes when it arrives as one chunk, and one that
\* is rejected is rejected with the error it gets as one chunk.
C36_ChunkingIndependent ==
    seg.method = "AES-128" =>
        /\ segPc = "flushed"
           => /\ WholeOutcome(seg).error = "none"
              /\ written = WholeOutcome(seg).written
        /\ (segPc = "error" /\ segError \in DecryptErrors)
           => WholeOutcome(seg).error = segError


\* The bytes of the chunk process_chunk holds back (last_chunk).
Lookahead == IF decryptor.last_chunk = None THEN 0 ELSE Len(Unwrap(decryptor.last_chunk))

\* C40: after every process_chunk call on an AES-128 decryptor the tail
\* kept for the next call (rest_to_decrypt) has fewer than 16 bytes, and
\* while the segment is read the bytes written are the largest multiple of
\* 16 in the bytes received less the chunk held back: written + tail +
\* held back = received.
C40_TailAndLookahead ==
    seg.method = "AES-128" =>
        /\ Len(decryptor.rest_to_decrypt) < BlockSize
        /\ segPc = "read"
           => /\ Len(written) + Len(decryptor.rest_to_decrypt) + Lookahead = pos
              /\ Len(written) = DecryptableLen(pos - Lookahead)

\* Three chunks have arrived: a block is written, a part of the second
\* block waits in the tail and the third chunk is held back.
C40_Witness ==
    /\ seg.method = "AES-128"
    /\ segPc = "read"
    /\ Len(written) = BlockSize
    /\ Len(decryptor.rest_to_decrypt) > 0
    /\ Lookahead > 0
    /\ pos < Len(seg.data)


\* Every entry of the registry is Finished.
EveryEntryFinished ==
    \A i \in 1..Len(sub_progresses) : sub_progresses[i].kind = "Finished"

\* clean_up_total_progress_bar finishes the aggregate bar exactly when every
\* entry is Finished and abandons it otherwise (nothing is marked when no
\* entry was ever registered).
MarkedByEntries ==
    dropped =>
        /\ (totalMark = "finished") <=> (sub_progresses # <<>> /\ EveryEntryFinished)
        /\ (totalMark = "abandoned") <=> (sub_progresses # <<>> /\ ~EveryEntryFinished)

\* C38: once the Downloader is cleared or dropped, the aggregate bar is marked
\* finished if and only if every registered entry is Finished and abandoned
\* otherwise, and its last draw shows 100% only if every registered transfer
\* finished.
C38_AggregateFullOnlyIfAllFinished ==
    /\ MarkedByEntries
    /\ (dropped /\ totalPercent = Some(100)) => EveryEntryFinished


\* Transfer t has opened its target, has not returned, and the file it
\* created is at its target path.
HoldsTarget(t) ==
    /\ CoPastOpen(coTasks[t])
    /\ \E f \in coFiles : f.path = CoPath(coTasks[t]) /\ f.owner = t

\* Transfer t has removed its raw file and has not returned yet.
RemovedRaw(t) ==
    /\ coTasks[t].pc = "cleanup"
    /\ ~HoldsTarget(t)

\* Transfer t takes the open step in this step.
OpenStep(t) == coTasks[t].pc = "open" /\ coTasks'[t].pc # "open"

FailsAtOpen(t) ==
    /\ coTasks'[t].pc = "returned"
    /\ coTasks'[t].result = "failed to open download target file"
    /\ coFiles' = coFiles

\* C37: no two transfers of progress_downloads that are both past the open
\* step have the same target path, and a task whose output path is that of a
\* transfer past the open step fails at open and writes nothing.
C37_NoSharedTargetPastOpen ==
    /\ [](\A t, u \in CoTaskIds :
            (t # u /\ CoPastOpen(coTasks[t]) /\ CoPastOpen(coTasks[u]))
                => CoPath(coTasks[t]) # CoPath(coTasks[u]))
    /\ [][\A t, u \in CoTaskIds :
            (t # u /\ OpenStep(t) /\ CoPastOpen(coTasks[u])
                   /\ CoPath(coTasks[u]) = CoPath(coTasks[t]))
                => FailsAtOpen(t)]_vars

\* C37 (amended): two transfers past the open step have the same target path
\* only if one of them has already removed its raw file after FFmpeg and is
\* about to return; a task whose output path is that of a transfer whose
\* target file is on disk fails at open and writes nothing.
C37_NoSharedTargetOnDisk ==
    /\ [](\A t, u \in CoTaskIds :
            (t # u /\ CoPastOpen(coTasks[t]) /\ CoPastOpen(coTasks[u])
                   /\ CoPath(coTasks[t]) = CoPath(coTasks[u]))
                => (RemovedRaw(t) \/ RemovedRaw(u)))
    /\ [][\A t, u \in CoTaskIds :
            (t # u /\ OpenStep(t) /\ HoldsTarget(u)
                   /\ CoPath(coTasks[u]) = CoPath(coTasks[t]))
                => FailsAtOpen(t)]_vars

\* A task has failed at open while the other transfer, past its open step,
\* has its file at the same path.
C37_Witness ==
    \E t, u \in CoTaskIds :
        /\ t # u
        /\ coTasks[t].result = "failed to open download target file"
        /\ HoldsTarget(u)
        /\ CoPath(coTasks[u]) = CoPath(coTasks[t])
        /\ coTasks[u].wrote = 1

=============================================================================
